---- MODULE Spec2Model ----
(***************************************************************************)
(* State machine of the bidirectional reconciliation engine of the         *)
(* Supernote / Apple Notes unifier: the state database (state.py), the     *)
(* Mirror change detector (sync/supernote_watcher.py), the reverse applier *)
(* (sync/reverse.py), the forward orchestrator (orchestrator.py) and the   *)
(* driver (sync/engine.py, cli.py).                                        *)
(*                                                                         *)
(* Source = Apple Notes, reached through the Swift bridge.                 *)
(* Mirror = the .txt files under the Supernote Apple/ directory.           *)
(***************************************************************************)
EXTENDS Integers, Sequences, FiniteSets, TLC

(***************************************************************************)
(* Bounds of the model.                                                    *)
(***************************************************************************)
\* notes present on the Source before the first pass
NumSeed == 1
\* note ids the Source can still hand out to create-note
MaxFresh == 2
\* external edits (Source or Mirror user) over a whole behaviour
MaxEdits == 2
\* injected failures (transport, generator) over a whole behaviour
MaxFails == 1

SeedIds == 1..NumSeed
AllIds == 1..(NumSeed + MaxFresh)
\* note names, which are also the H1 titles and the file stems
Names == {1, 2}
\* note bodies, as classes of equal content
Bodies == {1, 2}

(***************************************************************************)
(* Values.                                                                 *)
(***************************************************************************)
\* SQL NULL / Python None
None == <<>>
\* a path that holds no file
NoFile == <<>>
\* output_path '' written by record_failure
EmptyPath == <<>>
TO_SUPERNOTE == <<"to_supernote">>
FROM_SUPERNOTE == <<"from_supernote">>

\* hashlib.sha256(s.encode()).hexdigest()[:16], taken as injective: the
\* fingerprint of s is s in a wrapper, so that it is never None
Sha16(s) == <<s>>

Range(s) == {s[i] : i \in 1..Len(s)}

\* sanitize_filename on the names of the model (no unsafe character)
sanitize_filename(name) == name

\* MarkdownGenerator.generate: relative path "<name>.note" -> "<name>.txt"
TxtPath(name) == <<sanitize_filename(name), "txt">>
IsTxt(p) == p # EmptyPath /\ p[2] = "txt"
Stem(p) == p[1]
TxtPaths == {TxtPath(n) : n \in Names}

\* the content of a Mirror text file: the line "# <title>" and a Markdown body
Text(title, body) == <<title, body>>
Texts == {Text(t, b) : t \in Names, b \in Bodies}

\* markdown_to_apple_html: Markdown body -> Apple HTML body
markdown_to_apple_html(md) == <<"html", md>>
\* MarkdownGenerator._html_to_markdown: Apple HTML body -> Markdown body
html_to_markdown(html) == html[2]
\* the bridge's bodyPlainText of an HTML body
PlainText(html) == <<"plain", html[2]>>
\* extract_title_from_markdown: (title, remaining body)
extract_title_from_markdown(text) == <<text[1], text[2]>>

\* MarkdownGenerator._convert_to_markdown: "# title", blank line, body
convert_to_markdown(note) == Text(note.name, html_to_markdown(note.body))

\* Orchestrator._compute_hash / BidirectionalSyncEngine._compute_content_hash:
\* sha of "name|bodyPlainText|modificationDate"
ComputeHash(note) == Sha16(<<note.name, PlainText(note.body), note.mdate>>)

\* SupernoteWatcher.compute_content_hash / ReverseSyncEngine._compute_content_hash
ContentHash(content) == Sha16(content)

\* SupernoteWatcher.get_file_mtime_ms, as the fact that a time was read
FileMtime(p) == <<"mtime">>

NoNote == [name |-> 0, body |-> <<"html", 0>>, mdate |-> 0]
Note(name, b) == [name |-> name, body |-> <<"html", b>>, mdate |-> 0]

(***************************************************************************)
(* The note_state table: db maps an id to its row, rowOrder lists the ids  *)
(* that have a row in rowid order (INSERT OR REPLACE takes a new rowid).   *)
(***************************************************************************)
NoRow == [content_hash |-> None, output_path |-> EmptyPath,
          generator_type |-> None, success |-> FALSE, error |-> FALSE,
          supernote_content_hash |-> None, supernote_modified_at |-> None,
          last_sync_direction |-> None, apple_written_hash |-> None,
          is_locked |-> FALSE]

ZeroStats == [forward_total |-> 0, forward_created |-> 0, forward_updated |-> 0,
              forward_skipped |-> 0, forward_failed |-> 0,
              reverse_modified |-> 0, reverse_deleted |-> 0, reverse_created |-> 0,
              reverse_skipped |-> 0, reverse_failed |-> 0, originals_backed_up |-> 0,
              conflicts_detected |-> 0, conflicts_resolved_apple_wins |-> 0,
              errors |-> <<>>]

\* nothing scanned yet
ZeroCount == [changes |-> 0, new_files |-> 0, new_failed |-> 0]

VARIABLES
    src,        \* Source: id -> note (name, HTML body, modification date)
    srcIds,     \* ids of the notes that exist on the Source
    created,    \* number of ids create-note has handed out
    files,      \* Mirror: stem of a .txt path -> content, or NoFile
    db,         \* note_state rows
    rowOrder,   \* ids that have a row, in rowid order
    originals,  \* the originals table (backup ledger), oldest first
    pc,         \* position of the running pass, "done" when it has ended,
                \* "idle" between passes
    mode,       \* direction of the running or last pass
    dry,        \* dry_run of the running or last pass
    changes,    \* ChangedFiles of the scan still to process
    newFiles,   \* untracked files still to process
    todo,       \* exported notes still to process by the forward phase
    stats,      \* statistics of the running or last pass
    itemLog,    \* Source calls and ledger writes of the item processed last
    edits,      \* external edits so far
    fails,      \* injected failures so far
    returned,   \* the last pass returned its statistics (it did not raise)
    \* history of the behaviour, read by the properties only
    pending,    \* stems of tracked files holding a user edit that no pass has
                \* applied to the Source, counted as a conflict or overwritten
    conflictIds,\* ids for which the running or last pass counted a conflict
    refreshedAt,\* no external edit since update_supernote_hashes last ran
    quiet,      \* full passes returned in a row with no external edit and
                \* no other pass in between, up to 3
    srcSame,    \* no note of the Source changed since a forward phase completed
    adopted,    \* stem -> notes created from the file since the file was last
                \* written, up to 2
    orphaned,   \* orphaned outputs the forward phase of the running or last
                \* pass logged
    cols,       \* additive columns the note_state table has
    migrated,   \* additive columns the migrations have added so far
    applied,    \* ids of the notes a reverse apply rewrote, with no edit of
                \* the note on the Source and no forward item for it since
    generated,  \* ids of the notes a forward generation has succeeded for
    wrote,      \* stems of the Mirror files the forward phase wrote and the
                \* Mirror user has not deleted since
    folderCase, \* a new file of the Mirror by its full path, and the create-note
                \* call made for it
    lateEdit,   \* stems of the files the Mirror user rewrote or deleted after
                \* the scan of the running pass
    scanCount   \* the running pass: the numbers of ChangedFiles and of new
                \* files its scans returned, and of new files whose note
                \* could not be created

vars == <<src, srcIds, created, files, db, rowOrder, originals, pc, mode, dry,
          changes, newFiles, todo, stats, itemLog, edits, fails, returned,
          pending, conflictIds, refreshedAt, quiet, srcSame, adopted,
          orphaned, cols, migrated,
          applied, generated, wrote, folderCase, lateEdit, scanCount>>

HasRow(order, id) == id \in Range(order)

\* StateDatabase.get_note_state: the row of id as a set of at most one row,
\* empty where the code returns None
get_note_state(d, order, id) == IF HasRow(order, id) THEN {d[id]} ELSE {}

(***************************************************************************)
(* Schema of note_state: the columns of CREATE TABLE are always there, the *)
(* additive columns come with the migrations. A row of a table that lacks  *)
(* a column holds NoColumn in its place.                                   *)
(***************************************************************************)
AdditiveCols == {"supernote_content_hash", "supernote_modified_at",
                 "last_sync_direction", "apple_written_hash", "is_locked"}
OriginalCols == {"content_hash", "output_path", "generator_type", "success", "error"}
NoColumn == <<"no", "column">>

\* MIGRATIONS without the statement of apple_written_hash
MIGRATIONS_NoWrittenHash ==
    << [col |-> "supernote_content_hash", default |-> None],
       [col |-> "supernote_modified_at", default |-> None],
       [col |-> "last_sync_direction", default |-> None],
       [col |-> "is_locked", default |-> FALSE] >>

\* StateDatabase.MIGRATIONS: ALTER TABLE note_state ADD COLUMN <col>, the
\* existing rows taking NULL, or the DEFAULT 0 of is_locked
MIGRATIONS ==
    << [col |-> "supernote_content_hash", default |-> None],
       [col |-> "supernote_modified_at", default |-> None],
       [col |-> "last_sync_direction", default |-> None],
       [col |-> "apple_written_hash", default |-> None],
       [col |-> "is_locked", default |-> FALSE] >>

\* ALTER TABLE note_state ADD COLUMN: every row takes the default
AddColumn(d, order, col, default) ==
    [i \in DOMAIN d |-> IF HasRow(order, i) THEN [d[i] EXCEPT ![col] = default]
                        ELSE d[i]]

\* the loop of _run_migrations over the statements ms, columns being the
\* result of PRAGMA table_info read before the loop
RECURSIVE RunMigrations(_, _, _, _)
RunMigrations(d, order, columns, ms) ==
    IF ms = <<>> THEN d
    ELSE LET migration == Head(ms)
             d1 == IF migration.col \notin columns
                   THEN AddColumn(d, order, migration.col, migration.default)
                   ELSE d
         IN  RunMigrations(d1, order, columns, Tail(ms))

\* StateDatabase._init_db and _run_migrations: the rows after them
\* (CREATE TABLE IF NOT EXISTS leaves an existing table alone)
run_migrations(d, order, columns) == RunMigrations(d, order, columns, MIGRATIONS)

\* the columns _run_migrations adds to a table that has columns
Migrated(columns) ==
    {MIGRATIONS[k].col : k \in 1..Len(MIGRATIONS)} \ columns

\* needs_update that only asks whether a state exists
needs_update_NewOnly(d, order, id, content_hash) ==
    get_note_state(d, order, id) = {}

\* needs_update that also asks for the notes whose generation failed
needs_update_RetryFailed(d, order, id, content_hash) ==
    LET state == get_note_state(d, order, id)
    IN  IF state = {} THEN TRUE
        ELSE \E st \in state : st.content_hash # content_hash \/ ~st.success

\* StateDatabase.needs_update
needs_update(d, order, id, content_hash) ==
    LET state == get_note_state(d, order, id)
    IN  IF state = {} THEN TRUE
        ELSE \E st \in state : st.content_hash # content_hash

Without(order, id) == SelectSeq(order, LAMBDA i : i # id)

\* record_success that leaves content_hash out of the row
record_success_row_NoHash(content_hash, output_path, generator_type) ==
    [NoRow EXCEPT !.output_path = output_path,
                  !.generator_type = generator_type, !.success = TRUE,
                  !.last_sync_direction = TO_SUPERNOTE]

\* StateDatabase.record_success: INSERT OR REPLACE, the columns it does not
\* name are NULL in the new row
record_success_row(content_hash, output_path, generator_type) ==
    [NoRow EXCEPT !.content_hash = content_hash, !.output_path = output_path,
                  !.generator_type = generator_type, !.success = TRUE,
                  !.supernote_content_hash = None,
                  !.last_sync_direction = TO_SUPERNOTE, !.is_locked = FALSE]

\* StateDatabase.record_failure: INSERT OR REPLACE with output_path ''
record_failure_row(content_hash, generator_type) ==
    [NoRow EXCEPT !.content_hash = content_hash, !.output_path = EmptyPath,
                  !.generator_type = generator_type, !.success = FALSE,
                  !.error = TRUE]

\* StateDatabase.update_supernote_state: UPDATE ... WHERE apple_note_id = ?
update_supernote_state(d, order, id, hash, mtime) ==
    IF HasRow(order, id)
    THEN [d EXCEPT ![id].supernote_content_hash = hash,
                   ![id].supernote_modified_at = mtime,
                   ![id].last_sync_direction = TO_SUPERNOTE]
    ELSE d

\* StateDatabase.update_apple_written_hash: UPDATE ... WHERE apple_note_id = ?
update_apple_written_hash(d, order, id, hash) ==
    IF HasRow(order, id)
    THEN [d EXCEPT ![id].apple_written_hash = hash,
                   ![id].last_sync_direction = FROM_SUPERNOTE]
    ELSE d

\* is_echo_from_supernote that finds no echo
is_echo_from_supernote_Never(d, order, id, hash) == FALSE

\* StateDatabase.is_echo_from_supernote
is_echo_from_supernote(d, order, id, hash) ==
    LET state == get_note_state(d, order, id)
    IN  IF state = {} THEN FALSE
        ELSE \E st \in state : st.supernote_content_hash = hash

\* StateDatabase.get_all_txt_states: ids whose row has success = 1 and an
\* output_path LIKE '%.txt', in row order
get_all_txt_states(d, order) ==
    SelectSeq(order, LAMBDA i : d[i].success /\ IsTxt(d[i].output_path))

\* the rows a query selects, mapped to their output_path
RECURSIVE OutputPaths(_, _)
OutputPaths(d, ids) ==
    IF ids = <<>> THEN <<>>
    ELSE <<d[Head(ids)].output_path>> \o OutputPaths(d, Tail(ids))

\* get_orphaned_outputs that also drops the rows whose file is a .txt file
get_orphaned_outputs_NoTxt(d, order, current_note_ids) ==
    OutputPaths(d, SelectSeq(order, LAMBDA i : /\ d[i].success
                                              /\ ~IsTxt(d[i].output_path)
                                              /\ i \notin current_note_ids))

\* StateDatabase.get_orphaned_outputs: the output_path of the rows with
\* success = 1 whose id is not among current_note_ids, in row order
get_orphaned_outputs(d, order, current_note_ids) ==
    OutputPaths(d, SelectSeq(order, LAMBDA i : d[i].success /\ i \notin current_note_ids))


(***************************************************************************)
(* Mirror change detector (SupernoteWatcher).                              *)
(***************************************************************************)
MODIFIED == "modified"
DELETED == "deleted"

ChangedFile(path, change_type, id, new_hash, new_mtime, previous_hash) ==
    [path |-> path, change_type |-> change_type, apple_note_id |-> id,
     new_content_hash |-> new_hash, new_modified_at |-> new_mtime,
     previous_hash |-> previous_hash]

Exists(fs, p) == fs[Stem(p)] # NoFile

\* the keys of the dict path_to_state in insertion order: the output paths of
\* the states, each at the place of its first occurrence
RECURSIVE DictKeys(_, _)
DictKeys(d, states) ==
    IF states = <<>> THEN <<>>
    ELSE LET front == DictKeys(d, SubSeq(states, 1, Len(states) - 1))
             p == d[states[Len(states)]].output_path
         IN  IF p \in Range(front) THEN front ELSE Append(front, p)

\* path_to_state[p]: the state stored last under the key p
DictValue(d, states, p) ==
    LET last == CHOOSE k \in 1..Len(states) :
                    /\ d[states[k]].output_path = p
                    /\ \A j \in (k + 1)..Len(states) : d[states[j]].output_path # p
    IN  states[last]

\* the loop body comparing the file with content_hash, the hash of the note,
\* in place of supernote_content_hash
ScanOne_SourceHash(d, fs, p, id) ==
    IF ~Exists(fs, p)
    THEN <<ChangedFile(p, DELETED, id, None, None, d[id].supernote_content_hash)>>
    ELSE LET current_hash == ContentHash(fs[Stem(p)])
             previous_hash == d[id].content_hash
         IN  IF previous_hash # None /\ current_hash # previous_hash
             THEN <<ChangedFile(p, MODIFIED, id, current_hash, FileMtime(p),
                                previous_hash)>>
             ELSE <<>>

\* the loop body comparing the file with the baseline without asking whether
\* there is one
ScanOne_NoBaselineCheck(d, fs, p, id) ==
    IF ~Exists(fs, p)
    THEN <<ChangedFile(p, DELETED, id, None, None, d[id].supernote_content_hash)>>
    ELSE LET current_hash == ContentHash(fs[Stem(p)])
             previous_hash == d[id].supernote_content_hash
         IN  IF current_hash # previous_hash
             THEN <<ChangedFile(p, MODIFIED, id, current_hash, FileMtime(p),
                                previous_hash)>>
             ELSE <<>>

\* the body of the loop of scan_for_changes for one tracked path: the
\* ChangedFiles it appends
ScanOne(d, fs, p, id) ==
    IF ~Exists(fs, p)
    THEN <<ChangedFile(p, DELETED, id, None, None, d[id].supernote_content_hash)>>
    ELSE LET current_hash == ContentHash(fs[Stem(p)])
             previous_hash == d[id].supernote_content_hash
         IN  IF previous_hash # None /\ current_hash # previous_hash
             THEN <<ChangedFile(p, MODIFIED, id, current_hash, FileMtime(p),
                                previous_hash)>>
             ELSE <<>>

RECURSIVE ScanKeys(_, _, _, _)
ScanKeys(d, fs, states, keys) ==
    IF keys = <<>> THEN <<>>
    ELSE ScanOne(d, fs, Head(keys), DictValue(d, states, Head(keys)))
         \o ScanKeys(d, fs, states, Tail(keys))

\* SupernoteWatcher.scan_for_changes
scan_for_changes(d, order, fs) ==
    LET txt_states == get_all_txt_states(d, order)
    IN  ScanKeys(d, fs, txt_states, DictKeys(d, txt_states))

\* the .txt files under the Apple/ directory, in the order rglob lists them
RECURSIVE RGlob(_, _)
RGlob(fs, stems) ==
    IF stems = {} THEN <<>>
    ELSE LET n == CHOOSE m \in stems : \A k \in stems : m <= k
         IN  (IF fs[n] # NoFile THEN <<TxtPath(n)>> ELSE <<>>)
             \o RGlob(fs, stems \ {n})

\* SupernoteWatcher.scan_for_new_files
scan_for_new_files(d, order, fs) ==
    LET txt_states == get_all_txt_states(d, order)
        tracked_paths == {d[txt_states[k]].output_path : k \in 1..Len(txt_states)}
    IN  SelectSeq(RGlob(fs, Names), LAMBDA p : p \notin tracked_paths)

\* full paths as sequences of components; a string of folder names joined
\* by "/" is the sequence of the names, the empty string the empty sequence
MaxDepth == 3
FolderNames == {"Work", "Projects", "Home"}
\* SupernoteWatcher.apple_notes_dir, and a directory beside it
apple_notes_dir == <<"Note", "Apple">>
OtherDir == <<"Note", "Other">>

RECURSIVE SeqsUpTo(_, _)
SeqsUpTo(S, n) ==
    IF n = 0 THEN {<<>>}
    ELSE LET shorter == SeqsUpTo(S, n - 1)
         IN  shorter \cup {Append(s, x) : s \in shorter, x \in S}

IsPrefix(p, q) == Len(p) <= Len(q) /\ SubSeq(q, 1, Len(p)) = p

\* SupernoteWatcher.get_apple_folder_path: txt_path.relative_to(root).parent,
\* "" for "." and "" when relative_to raises ValueError
get_apple_folder_path(root, txt_path) ==
    IF IsPrefix(root, txt_path) /\ Len(txt_path) > Len(root)
    THEN LET relative == SubSeq(txt_path, Len(root) + 1, Len(txt_path))
             folder_path == SubSeq(relative, 1, Len(relative) - 1)
         IN  folder_path
    ELSE <<>>

\* the --folder-name argument of the create-note call of
\* create_apple_note_from_txt: apple_folder_path.split("/")[-1], or no
\* argument when apple_folder_path is empty
NoFolder == <<>>
folder_name_argument(apple_folder_path) ==
    IF apple_folder_path # <<>>
    THEN <<apple_folder_path[Len(apple_folder_path)]>>
    ELSE NoFolder

\* no new file under consideration
NoCase == [txt_path |-> <<>>, dirs |-> <<>>, under |-> FALSE, called |-> FALSE,
           apple_folder_path |-> <<>>, folder_name |-> NoFolder]


(***************************************************************************)
(* Reverse applier (ReverseSyncEngine).  An operation takes the world      *)
(* w = [src, srcIds, created, db, order, originals, log, fails] and the    *)
(* verdicts ok* of the bridge calls it makes (FALSE: the call fails, which *)
(* w.fails counts), and gives the world after it with the result returned. *)
(***************************************************************************)
GENERATOR_TEXT == <<"text">>

Ev(op, id, ok) == <<op, id, ok>>

\* the world after a bridge call: the call is logged with its outcome, and a
\* failure by verdict is counted
Call(w, op, id, verdict, ok) ==
    [w EXCEPT !.log = Append(@, Ev(op, id, ok)),
              !.fails = IF verdict THEN @ ELSE @ + 1]

\* the id create-note gives to the next note
NextId(w) == NumSeed + w.created + 1

\* _backup_to_originals that returns True without record_original
backup_to_originals_NoRecord(w, id, reason, okRead, okCopy) ==
    LET readOk == okRead /\ id \in w.srcIds
        w1 == Call(w, "export-note", id, okRead, readOk)
        w2 == Call(w1, "create-note-originals", id, okCopy, okCopy)
    IN  IF ~readOk THEN [w |-> w1, ok |-> FALSE]
        ELSE IF ~okCopy THEN [w |-> w2, ok |-> FALSE]
        ELSE [w |-> w2, ok |-> TRUE]

\* _backup_to_originals whose record replaces the earlier records of the note
backup_to_originals_Replace(w, id, reason, okRead, okCopy) ==
    LET readOk == okRead /\ id \in w.srcIds
        w1 == Call(w, "export-note", id, okRead, readOk)
        w2 == Call(w1, "create-note-originals", id, okCopy, okCopy)
    IN  IF ~readOk THEN [w |-> w1, ok |-> FALSE]
        ELSE IF ~okCopy THEN [w |-> w2, ok |-> FALSE]
        ELSE [w |-> [w2 EXCEPT
                       !.originals =
                           Append(SelectSeq(@, LAMBDA r : r.apple_note_id # id),
                                  [apple_note_id |-> id,
                                   original_content |-> PlainText(w.src[id].body),
                                   original_html |-> w.src[id].body,
                                   reason |-> reason]),
                       !.log = Append(@, Ev("record_original", id, TRUE))],
              ok |-> TRUE]

\* ReverseSyncEngine._backup_to_originals: export-note, then the copy in the
\* Originals folder (get-folder-by-name / create-folder / create-note), then
\* record_original; any failure returns False
backup_to_originals(w, id, reason, okRead, okCopy) ==
    LET readOk == okRead /\ id \in w.srcIds
        w1 == Call(w, "export-note", id, okRead, readOk)
        w2 == Call(w1, "create-note-originals", id, okCopy, okCopy)
    IN  IF ~readOk THEN [w |-> w1, ok |-> FALSE]
        ELSE IF ~okCopy THEN [w |-> w2, ok |-> FALSE]
        ELSE [w |-> [w2 EXCEPT
                       !.originals = Append(@,
                           [apple_note_id |-> id,
                            original_content |-> PlainText(w.src[id].body),
                            original_html |-> w.src[id].body,
                            reason |-> reason]),
                       !.log = Append(@, Ev("record_original", id, TRUE))],
              ok |-> TRUE]

Result(success, id, action, backed_up) ==
    [success |-> success, apple_note_id |-> id, action |-> action,
     original_backed_up |-> backed_up]

\* the bridge's update-note: the note takes the HTML body, and Apple Notes
\* stamps a new modification date
UpdateNote(w, id, html_body) ==
    [w EXCEPT !.src[id].body = html_body, !.src[id].mdate = @ + 1]

\* the bridge's delete-note
DeleteNote(w, id) ==
    [w EXCEPT !.srcIds = @ \ {id}, !.src[id] = NoNote]

\* the bridge's create-note: a new note under a new id
CreateNote(w, title, html_body) ==
    [w EXCEPT !.srcIds = @ \cup {NextId(w)},
              !.src[NextId(w)] = [name |-> title, body |-> html_body, mdate |-> 0],
              !.created = @ + 1]

\* sync_modified_file taking its backup after update-note
sync_modified_file_BackupAfter(w, fs, change, okRead, okCopy, okApply) ==
    LET id == change.apple_note_id
        new_content == fs[Stem(change.path)]
        new_hash == ContentHash(new_content)
        html_body == markdown_to_apple_html(extract_title_from_markdown(new_content)[2])
        applyOk == okApply /\ id \in w.srcIds
        w1 == Call(w, "update-note", id, okApply, applyOk)
        w2 == UpdateNote(w1, id, html_body)
        b == backup_to_originals(w2, id, <<MODIFIED, change.path>>, okRead, okCopy)
        w3 == [b.w EXCEPT !.db = update_apple_written_hash(@, w.order, id,
                                                            ContentHash(html_body))]
        w4 == [w3 EXCEPT !.db = update_supernote_state(@, w.order, id, new_hash,
                   IF change.new_modified_at # None THEN change.new_modified_at
                   ELSE <<0>>)]
    IN  IF ~Exists(fs, change.path)
        THEN [w |-> w, result |-> Result(FALSE, id, "skipped", FALSE)]
        ELSE IF is_echo_from_supernote(w.db, w.order, id, new_hash)
        THEN [w |-> w, result |-> Result(TRUE, id, "skipped", FALSE)]
        ELSE IF ~applyOk
        THEN [w |-> w1, result |-> Result(FALSE, id, "failed", FALSE)]
        ELSE [w |-> w4, result |-> Result(TRUE, id, "updated", b.ok)]

\* sync_modified_file storing the hash scan_for_changes computed
sync_modified_file_ScanHash(w, fs, change, okRead, okCopy, okApply) ==
    LET id == change.apple_note_id
        new_content == fs[Stem(change.path)]
        new_hash == ContentHash(new_content)
        b == backup_to_originals(w, id, <<MODIFIED, change.path>>, okRead, okCopy)
        html_body == markdown_to_apple_html(extract_title_from_markdown(new_content)[2])
        applyOk == okApply /\ id \in w.srcIds
        w1 == Call(b.w, "update-note", id, okApply, applyOk)
        w2 == UpdateNote(w1, id, html_body)
        w3 == [w2 EXCEPT !.db = update_apple_written_hash(@, w.order, id,
                                                          ContentHash(html_body))]
        w4 == [w3 EXCEPT !.db = update_supernote_state(@, w.order, id,
                   change.new_content_hash,
                   IF change.new_modified_at # None THEN change.new_modified_at
                   ELSE <<0>>)]
    IN  IF ~Exists(fs, change.path)
        THEN [w |-> w, result |-> Result(FALSE, id, "skipped", FALSE)]
        ELSE IF is_echo_from_supernote(w.db, w.order, id, new_hash)
        THEN [w |-> w, result |-> Result(TRUE, id, "skipped", FALSE)]
        ELSE IF ~applyOk
        THEN [w |-> w1, result |-> Result(FALSE, id, "failed", FALSE)]
        ELSE [w |-> w4, result |-> Result(TRUE, id, "updated", b.ok)]

\* ReverseSyncEngine.sync_modified_file
sync_modified_file(w, fs, change, okRead, okCopy, okApply) ==
    LET id == change.apple_note_id
        new_content == fs[Stem(change.path)]
        new_hash == ContentHash(new_content)
        b == backup_to_originals(w, id, <<MODIFIED, change.path>>, okRead, okCopy)
        html_body == markdown_to_apple_html(extract_title_from_markdown(new_content)[2])
        applyOk == okApply /\ id \in w.srcIds
        w1 == Call(b.w, "update-note", id, okApply, applyOk)
        w2 == UpdateNote(w1, id, html_body)
        w3 == [w2 EXCEPT !.db = update_apple_written_hash(@, w.order, id,
                                                          ContentHash(html_body))]
        w4 == [w3 EXCEPT !.db = update_supernote_state(@, w.order, id, new_hash,
                   IF change.new_modified_at # None THEN change.new_modified_at
                   ELSE <<0>>)]
    IN  IF ~Exists(fs, change.path)
        THEN [w |-> w, result |-> Result(FALSE, id, "skipped", FALSE)]
        ELSE IF is_echo_from_supernote(w.db, w.order, id, new_hash)
        THEN [w |-> w, result |-> Result(TRUE, id, "skipped", FALSE)]
        ELSE IF ~applyOk
        THEN [w |-> w1, result |-> Result(FALSE, id, "failed", FALSE)]
        ELSE [w |-> w4, result |-> Result(TRUE, id, "updated", b.ok)]

\* sync_deleted_file giving up when the backup failed
sync_deleted_file_BackupRequired(w, change, okRead, okCopy, okApply) ==
    LET id == change.apple_note_id
        b == backup_to_originals(w, id, <<DELETED, change.path>>, okRead, okCopy)
        applyOk == okApply /\ id \in w.srcIds
        w1 == Call(b.w, "delete-note", id, okApply, applyOk)
    IN  IF ~b.ok
        THEN [w |-> b.w, result |-> Result(FALSE, id, "failed", FALSE)]
        ELSE IF ~applyOk
        THEN [w |-> w1, result |-> Result(FALSE, id, "failed", FALSE)]
        ELSE [w |-> DeleteNote(w1, id), result |-> Result(TRUE, id, "deleted", b.ok)]

\* ReverseSyncEngine.sync_deleted_file
sync_deleted_file(w, change, okRead, okCopy, okApply) ==
    LET id == change.apple_note_id
        b == backup_to_originals(w, id, <<DELETED, change.path>>, okRead, okCopy)
        applyOk == okApply /\ id \in w.srcIds
        w1 == Call(b.w, "delete-note", id, okApply, applyOk)
    IN  IF ~applyOk
        THEN [w |-> w1, result |-> Result(FALSE, id, "failed", FALSE)]
        ELSE [w |-> DeleteNote(w1, id), result |-> Result(TRUE, id, "deleted", b.ok)]

\* ReverseSyncEngine.process_change
process_change(w, fs, change, okRead, okCopy, okApply) ==
    IF change.change_type = MODIFIED
    THEN sync_modified_file(w, fs, change, okRead, okCopy, okApply)
    ELSE sync_deleted_file(w, change, okRead, okCopy, okApply)

\* ReverseSyncEngine.create_apple_note_from_txt; create-note also fails when
\* the Source has no id left to give
create_apple_note_from_txt(w, fs, txt_path, okApply) ==
    LET content == fs[Stem(txt_path)]
        parts == extract_title_from_markdown(content)
        html_body == markdown_to_apple_html(parts[2])
        title == IF parts[1] = 0 THEN Stem(txt_path) ELSE parts[1]
        applyOk == okApply /\ w.created < MaxFresh
        new_note_id == NextId(w)
        w1 == Call(w, "create-note", IF applyOk THEN new_note_id ELSE 0,
                   okApply, applyOk)
        w2 == CreateNote(w1, title, html_body)
        w3 == [w2 EXCEPT !.db = update_apple_written_hash(@, w.order, new_note_id,
                                                          ContentHash(html_body))]
    IN  IF ~Exists(fs, txt_path)
        THEN [w |-> w, result |-> Result(FALSE, 0, "failed", FALSE)]
        ELSE IF ~applyOk
        THEN [w |-> w1, result |-> Result(FALSE, 0, "failed", FALSE)]
        ELSE [w |-> w3, result |-> Result(TRUE, new_note_id, "created", FALSE)]

Init ==
    /\ src = [i \in AllIds |-> IF i \in SeedIds THEN Note(1, 1) ELSE NoNote]
    /\ srcIds = SeedIds
    /\ created = 0
    /\ files = [n \in Names |-> NoFile]
    /\ db = [i \in AllIds |-> NoRow]
    /\ rowOrder = <<>>
    /\ originals = <<>>
    /\ pc = "idle"
    /\ mode = "forward"
    /\ dry = FALSE
    /\ changes = <<>>
    /\ newFiles = <<>>
    /\ todo = <<>>
    /\ stats = ZeroStats
    /\ itemLog = <<>>
    /\ edits = 0
    /\ fails = 0
    /\ returned = FALSE
    /\ pending = {}
    /\ conflictIds = {}
    /\ refreshedAt = FALSE
    /\ quiet = 0
    /\ srcSame = FALSE
    /\ adopted = [n \in Names |-> 0]
    /\ orphaned = <<>>
    /\ cols = AdditiveCols
    /\ migrated = {}
    /\ applied = {}
    /\ generated = {}
    /\ wrote = {}
    /\ folderCase = NoCase
    /\ lateEdit = {}
    /\ scanCount = ZeroCount

\* rows of the largest number an earlier run can have left
MaxOldRows == 2

\* the value a row holds for an additive column: NoColumn when the table
\* columns lacks it
SchemaField(columns, col, value) == IF col \in columns THEN value ELSE NoColumn

\* a row record_success or record_failure of an earlier version wrote into a
\* table that has columns, its additive fields NULL or filled
OldRow(columns, success, filled, locked) ==
    [content_hash |-> ComputeHash(Note(1, 1)),
     output_path |-> IF success THEN TxtPath(1) ELSE EmptyPath,
     generator_type |-> GENERATOR_TEXT, success |-> success, error |-> ~success,
     supernote_content_hash |->
        SchemaField(columns, "supernote_content_hash",
                    IF filled THEN ContentHash(Text(1, 1)) ELSE None),
     supernote_modified_at |->
        SchemaField(columns, "supernote_modified_at",
                    IF filled THEN FileMtime(TxtPath(1)) ELSE None),
     last_sync_direction |->
        SchemaField(columns, "last_sync_direction",
                    IF filled THEN TO_SUPERNOTE ELSE None),
     apple_written_hash |->
        SchemaField(columns, "apple_written_hash",
                    IF filled THEN ContentHash(Text(1, 2)) ELSE None),
     is_locked |-> SchemaField(columns, "is_locked", locked)]

\* the state database an earlier version of the program left: a note_state
\* table with any subset of the additive columns and up to MaxOldRows rows
InitSchema ==
    /\ src = [i \in AllIds |-> IF i \in SeedIds THEN Note(1, 1) ELSE NoNote]
    /\ srcIds = SeedIds
    /\ created = 0
    /\ \E columns \in SUBSET AdditiveCols, n \in 0..MaxOldRows,
          success, filled, locked \in BOOLEAN :
         /\ cols = columns
         /\ db = [i \in AllIds |->
                    IF i <= n
                    THEN OldRow(columns, IF i = 1 THEN success ELSE ~success,
                                filled, locked)
                    ELSE NoRow]
         /\ rowOrder = [i \in 1..n |-> i]
         /\ files = [f \in Names |-> IF f = 1 /\ n > 0
                                      THEN convert_to_markdown(Note(1, 1))
                                      ELSE NoFile]
    /\ originals = <<>>
    /\ pc = "idle"
    /\ mode = "forward"
    /\ dry = FALSE
    /\ changes = <<>>
    /\ newFiles = <<>>
    /\ todo = <<>>
    /\ stats = ZeroStats
    /\ itemLog = <<>>
    /\ edits = 0
    /\ fails = 0
    /\ returned = FALSE
    /\ pending = {}
    /\ conflictIds = {}
    /\ refreshedAt = FALSE
    /\ quiet = 0
    /\ srcSame = FALSE
    /\ adopted = [n \in Names |-> 0]
    /\ orphaned = <<>>
    /\ migrated = {}
    /\ applied = {}
    /\ generated = {}
    /\ wrote = {}
    /\ folderCase = NoCase
    /\ lateEdit = {}
    /\ scanCount = ZeroCount

\* StateDatabase.__init__ outside a pass (any command of the cli opens the
\* state database): _init_db, then _run_migrations
OpenStore ==
    /\ pc = "idle"
    /\ db' = run_migrations(db, rowOrder, cols)
    /\ cols' = cols \cup Migrated(cols)
    /\ migrated' = migrated \cup Migrated(cols)
    /\ UNCHANGED <<scanCount, lateEdit, folderCase, generated, wrote, applied, src, srcIds, created, files, rowOrder, originals, pc, mode, dry,
                   changes, newFiles, todo, stats, itemLog, edits, fails, returned,
                   pending, conflictIds, refreshedAt, quiet, srcSame, adopted,
                   orphaned>>

(***************************************************************************)
(* External edits, between passes only.                                    *)
(***************************************************************************)
\* the file of stem n is the output of a tracked plain-text state
Tracked(d, order, n) ==
    \E k \in 1..Len(get_all_txt_states(d, order)) :
        d[get_all_txt_states(d, order)[k]].output_path = TxtPath(n)

\* the Source user rewrites the body of a note
EditSource ==
    /\ pc = "idle" /\ edits < MaxEdits
    /\ \E id \in srcIds, b \in Bodies :
         /\ src[id].body # <<"html", b>>
         /\ src' = [src EXCEPT ![id].body = <<"html", b>>, ![id].mdate = @ + 1]
         /\ applied' = applied \ {id}
    /\ edits' = edits + 1
    /\ quiet' = 0
    /\ srcSame' = FALSE
    /\ refreshedAt' = FALSE
    /\ UNCHANGED <<scanCount, lateEdit, folderCase, generated, wrote, cols, migrated, orphaned, adopted, srcIds, created, files, db, rowOrder, originals, pc, mode, dry,
                   changes, newFiles, todo, stats, itemLog, fails, returned,
                   pending, conflictIds>>

\* the Source user deletes a note
DeleteSource ==
    /\ pc = "idle" /\ edits < MaxEdits
    /\ \E id \in srcIds :
         /\ srcIds' = srcIds \ {id}
         /\ src' = [src EXCEPT ![id] = NoNote]
         /\ applied' = applied \ {id}
    /\ edits' = edits + 1
    /\ quiet' = 0
    /\ srcSame' = FALSE
    /\ refreshedAt' = FALSE
    /\ UNCHANGED <<scanCount, lateEdit, folderCase, generated, wrote, cols, migrated, orphaned, adopted, created, files, db, rowOrder, originals, pc, mode, dry,
                   changes, newFiles, todo, stats, itemLog, fails, returned,
                   pending, conflictIds>>

\* the Mirror user rewrites, creates or deletes a .txt file
EditMirror ==
    /\ pc = "idle" /\ edits < MaxEdits
    /\ \E n \in Names, t \in Texts \cup {NoFile} :
         /\ files[n] # t
         /\ files' = [files EXCEPT ![n] = t]
         /\ pending' = IF files[n] # NoFile /\ t # NoFile /\ Tracked(db, rowOrder, n)
                        THEN pending \cup {n} ELSE pending \ {n}
         /\ adopted' = [adopted EXCEPT ![n] = 0]
         /\ wrote' = IF t = NoFile THEN wrote \ {n} ELSE wrote
    /\ edits' = edits + 1
    /\ quiet' = 0
    /\ refreshedAt' = FALSE
    /\ UNCHANGED <<scanCount, lateEdit, folderCase, generated, applied, cols, migrated, orphaned, src, srcIds, created, db, rowOrder, originals, pc, mode, dry,
                   changes, newFiles, todo, stats, itemLog, fails, returned,
                   conflictIds, srcSame>>

(***************************************************************************)
(* Driver: cli.sync, BidirectionalSyncEngine, Orchestrator.run.            *)
(***************************************************************************)
Bump(st, field) == [st EXCEPT ![field] = @ + 1]
AddError(st, e) == [st EXCEPT !.errors = Append(@, e)]

TheWorld == [src |-> src, srcIds |-> srcIds, created |-> created, db |-> db,
             order |-> rowOrder, originals |-> originals, log |-> <<>>,
             fails |-> fails]

\* the choices of --direction (click.Choice of cli.sync)
Directions == {"forward", "reverse", "both"}

\* cli.sync: a pass starts in the direction given, as a dry run or not; its
\* engine opens the state database (StateDatabase.__init__)
Start(direction) ==
    /\ pc = "idle"
    /\ \E d \in BOOLEAN :
         /\ mode' = direction
         /\ dry' = d
         /\ pc' = IF direction = "forward" THEN "export" ELSE "backup"
    /\ stats' = ZeroStats
    /\ itemLog' = <<>>
    /\ returned' = FALSE
    /\ conflictIds' = {}
    /\ quiet' = IF mode' = "both" /\ ~dry' THEN quiet ELSE 0
    /\ orphaned' = <<>>
    /\ scanCount' = ZeroCount
    /\ lateEdit' = {}
    /\ db' = run_migrations(db, rowOrder, cols)
    /\ cols' = cols \cup Migrated(cols)
    /\ migrated' = migrated \cup Migrated(cols)
    /\ UNCHANGED <<folderCase, generated, wrote, applied, adopted, src, srcIds, created, files, rowOrder, originals,
                   changes, newFiles, todo, edits, fails,
                   pending, refreshedAt, srcSame>>

\* cli.sync with any --direction
StartPass == \E direction \in Directions : Start(direction)

\* cli.sync --direction both
StartBoth == Start("both")

\* create_backup with a failed snapshot ending the pass
BackupAndScan_StopOnFailure ==
    /\ pc = "backup"
    /\ \E create_backup, ok \in BOOLEAN :
         LET w == IF create_backup /\ ~dry
                  THEN Call(TheWorld, "backup-all", 0, ok, ok) ELSE TheWorld
         IN  /\ w.fails <= MaxFails
             /\ fails' = w.fails
             /\ itemLog' = w.log
             /\ IF w.fails > fails
                THEN changes' = <<>> /\ pc' = "done"
                ELSE changes' = scan_for_changes(db, rowOrder, files) /\ pc' = "changes"
    /\ scanCount' = [scanCount EXCEPT !.changes = Len(changes')]
    /\ UNCHANGED <<lateEdit, folderCase, generated, wrote, applied, cols, migrated, orphaned, adopted, src, srcIds, created, files, db, rowOrder, originals, mode, dry,
                   newFiles, todo, stats, edits, returned,
                   pending, conflictIds, refreshedAt, quiet, srcSame>>

\* BidirectionalSyncEngine.create_backup (step 1 of run_bidirectional, and the
\* reverse branch of cli.sync), then the scan_for_changes of run_reverse_sync
BackupAndScan ==
    /\ pc = "backup"
    /\ \E create_backup, ok \in BOOLEAN :
         LET w == IF create_backup /\ ~dry
                  THEN Call(TheWorld, "backup-all", 0, ok, ok) ELSE TheWorld
         IN  /\ w.fails <= MaxFails
             /\ fails' = w.fails
             /\ itemLog' = w.log
    /\ changes' = scan_for_changes(db, rowOrder, files)
    /\ pc' = "changes"
    /\ scanCount' = [scanCount EXCEPT !.changes = Len(changes')]
    /\ UNCHANGED <<lateEdit, folderCase, generated, wrote, applied, cols, migrated, orphaned, adopted, src, srcIds, created, files, db, rowOrder, originals, mode, dry,
                   newFiles, todo, stats, edits, returned,
                   pending, conflictIds, refreshedAt, quiet, srcSame>>

\* the conflict check of run_reverse_sync: the world after its export-note
\* (no call when the note has no state)
ConflictCheck(w, change, okCheck) ==
    IF get_note_state(w.db, w.order, change.apple_note_id) # {}
    THEN Call(w, "export-note", change.apple_note_id, okCheck,
              okCheck /\ change.apple_note_id \in w.srcIds)
    ELSE w

\* the check with the comparison of the hashes turned round
ConflictFound_SameHash(w, change, okCheck) ==
    /\ get_note_state(w.db, w.order, change.apple_note_id) # {}
    /\ okCheck /\ change.apple_note_id \in w.srcIds
    /\ ComputeHash(w.src[change.apple_note_id])
         = w.db[change.apple_note_id].content_hash

\* the check made for modified files only
ConflictFound_ModifiedOnly(w, change, okCheck) ==
    /\ change.change_type = MODIFIED
    /\ get_note_state(w.db, w.order, change.apple_note_id) # {}
    /\ okCheck /\ change.apple_note_id \in w.srcIds
    /\ ComputeHash(w.src[change.apple_note_id])
         # w.db[change.apple_note_id].content_hash

\* the check counting a note it could not read as a conflict
ConflictFound_FailedRead(w, change, okCheck) ==
    /\ get_note_state(w.db, w.order, change.apple_note_id) # {}
    /\ \/ ~(okCheck /\ change.apple_note_id \in w.srcIds)
       \/ ComputeHash(w.src[change.apple_note_id])
            # w.db[change.apple_note_id].content_hash

\* whether that check finds a conflict: the state exists, export-note
\* answers, and the hash of the note differs from the stored content_hash
ConflictFound(w, change, okCheck) ==
    /\ get_note_state(w.db, w.order, change.apple_note_id) # {}
    /\ okCheck /\ change.apple_note_id \in w.srcIds
    /\ ComputeHash(w.src[change.apple_note_id])
         # w.db[change.apple_note_id].content_hash

\* the statistics after a result, a failure being counted without its error
\* entry
CountResult_NoError(st, change, result) ==
    IF result.success
    THEN LET st1 == IF result.action = "updated" THEN Bump(st, "reverse_modified")
                    ELSE IF result.action = "deleted" THEN Bump(st, "reverse_deleted")
                    ELSE IF result.action = "skipped" THEN Bump(st, "reverse_skipped")
                    ELSE st
         IN  IF result.original_backed_up THEN Bump(st1, "originals_backed_up") ELSE st1
    ELSE Bump(st, "reverse_failed")

\* the statistics of run_reverse_sync after the result of process_change
CountResult(st, change, result) ==
    IF result.success
    THEN LET st1 == IF result.action = "updated" THEN Bump(st, "reverse_modified")
                    ELSE IF result.action = "deleted" THEN Bump(st, "reverse_deleted")
                    ELSE IF result.action = "skipped" THEN Bump(st, "reverse_skipped")
                    ELSE st
         IN  IF result.original_backed_up THEN Bump(st1, "originals_backed_up") ELSE st1
    ELSE AddError(Bump(st, "reverse_failed"), <<change.path, change.apple_note_id>>)

\* run_reverse_sync: the body of the loop over the changes, for one change:
\* the world and the statistics after it
ReverseItem(w, fs, st, change, okCheck, okRead, okCopy, okApply) ==
    LET w0 == ConflictCheck(w, change, okCheck)
        r == process_change(w0, fs, change, okRead, okCopy, okApply)
    IN  IF ConflictFound(w, change, okCheck)
        THEN [w |-> w0,
              stats |-> Bump(Bump(Bump(st, "conflicts_detected"),
                                  "conflicts_resolved_apple_wins"),
                             "reverse_skipped")]
        ELSE [w |-> r.w, stats |-> CountResult(st, change, r.result)]

ProcessChange ==
    /\ pc = "changes" /\ changes # <<>>
    /\ IF dry
       THEN /\ stats' = IF Head(changes).change_type = DELETED
                        THEN Bump(stats, "reverse_deleted")
                        ELSE Bump(stats, "reverse_modified")
            /\ itemLog' = <<>>
            /\ UNCHANGED <<applied, src, srcIds, created, db, originals, fails,
                           pending, conflictIds, srcSame>>
       ELSE \E okCheck, okRead, okCopy, okApply \in BOOLEAN :
              LET r == ReverseItem(TheWorld, files, stats, Head(changes),
                                   okCheck, okRead, okCopy, okApply)
              IN  /\ r.w.fails <= MaxFails
                  /\ fails' = r.w.fails
                  /\ src' = r.w.src
                  /\ srcIds' = r.w.srcIds
                  /\ created' = r.w.created
                  /\ db' = r.w.db
                  /\ originals' = r.w.originals
                  /\ itemLog' = r.w.log
                  /\ stats' = r.stats
                  /\ conflictIds' =
                        IF r.stats.conflicts_detected > stats.conflicts_detected
                        THEN conflictIds \cup {Head(changes).apple_note_id}
                        ELSE conflictIds
                  /\ pending' =
                        IF \/ r.stats.conflicts_detected > stats.conflicts_detected
                           \/ r.stats.reverse_modified > stats.reverse_modified
                        THEN pending \ {Stem(Head(changes).path)}
                        ELSE pending
                  /\ srcSame' = (srcSame /\ r.w.src = src /\ r.w.srcIds = srcIds)
                  /\ applied' =
                        IF r.stats.reverse_modified > stats.reverse_modified
                        THEN applied \cup {Head(changes).apple_note_id}
                        ELSE IF r.stats.reverse_deleted > stats.reverse_deleted
                        THEN applied \ {Head(changes).apple_note_id}
                        ELSE applied
    /\ changes' = Tail(changes)
    /\ UNCHANGED <<scanCount, lateEdit, folderCase, generated, wrote, cols, migrated, orphaned, adopted, files, rowOrder, pc, mode, dry, newFiles, todo, edits, returned,
                   refreshedAt, quiet>>

\* run_reverse_sync: scan_for_new_files, once the changes are processed
ScanNew ==
    /\ pc = "changes" /\ changes = <<>>
    /\ newFiles' = scan_for_new_files(db, rowOrder, files)
    /\ pc' = "newfiles"
    /\ scanCount' = [scanCount EXCEPT !.new_files = Len(newFiles')]
    /\ UNCHANGED <<lateEdit, folderCase, generated, wrote, applied, cols, migrated, orphaned, adopted, src, srcIds, created, files, db, rowOrder, originals, mode, dry,
                   changes, todo, stats, itemLog, edits, fails, returned,
                   pending, conflictIds, refreshedAt, quiet, srcSame>>

\* the loop body that counts nothing for a note it could not create
NewFileItem_FailureUncounted(w, fs, st, txt_path, okApply) ==
    LET r == create_apple_note_from_txt(w, fs, txt_path, okApply)
    IN  [w |-> r.w,
         stats |-> IF r.result.success THEN Bump(st, "reverse_created") ELSE st]

\* run_reverse_sync: the body of the loop over the new files, for one file
NewFileItem(w, fs, st, txt_path, okApply) ==
    LET r == create_apple_note_from_txt(w, fs, txt_path, okApply)
    IN  [w |-> r.w,
         stats |-> IF r.result.success THEN Bump(st, "reverse_created")
                   ELSE AddError(Bump(st, "reverse_failed"), <<txt_path, 0>>)]

ProcessNewFile ==
    /\ pc = "newfiles" /\ newFiles # <<>>
    /\ IF dry
       THEN /\ stats' = Bump(stats, "reverse_created")
            /\ itemLog' = <<>>
            /\ UNCHANGED <<src, srcIds, created, db, originals, fails, srcSame,
                           adopted>>
       ELSE \E okApply \in BOOLEAN :
              LET r == NewFileItem(TheWorld, files, stats, Head(newFiles), okApply)
              IN  /\ r.w.fails <= MaxFails
                  /\ fails' = r.w.fails
                  /\ src' = r.w.src
                  /\ srcIds' = r.w.srcIds
                  /\ created' = r.w.created
                  /\ db' = r.w.db
                  /\ originals' = r.w.originals
                  /\ itemLog' = r.w.log
                  /\ stats' = r.stats
                  /\ srcSame' = (srcSame /\ r.w.srcIds = srcIds)
                  /\ adopted' =
                        IF r.w.created > created /\ adopted[Stem(Head(newFiles))] < 2
                        THEN [adopted EXCEPT ![Stem(Head(newFiles))] = @ + 1]
                        ELSE adopted
    /\ newFiles' = Tail(newFiles)
    /\ scanCount' = IF stats'.reverse_failed > stats.reverse_failed
                    THEN [scanCount EXCEPT !.new_failed = @ + 1]
                    ELSE scanCount
    /\ UNCHANGED <<lateEdit, folderCase, generated, wrote, applied, cols, migrated, orphaned, files, rowOrder, pc, mode, dry, changes, todo, edits, returned,
                   pending, conflictIds, refreshedAt, quiet>>

\* run_bidirectional, step 2: the counters it copies from the statistics of
\* run_reverse_sync into its own
CopyReverseStats(reverse_stats) ==
    [ZeroStats EXCEPT
        !.reverse_modified = reverse_stats.reverse_modified,
        !.reverse_deleted = reverse_stats.reverse_deleted,
        !.reverse_skipped = reverse_stats.reverse_skipped,
        !.reverse_failed = reverse_stats.reverse_failed,
        !.originals_backed_up = reverse_stats.originals_backed_up,
        !.conflicts_detected = reverse_stats.conflicts_detected,
        !.conflicts_resolved_apple_wins = reverse_stats.conflicts_resolved_apple_wins,
        !.errors = reverse_stats.errors]

\* run_reverse_sync returns: the reverse pass of cli.sync ends, or
\* run_bidirectional goes on to its forward sync
FinishReverse ==
    /\ pc = "newfiles" /\ newFiles = <<>>
    /\ IF mode = "both"
       THEN /\ stats' = CopyReverseStats(stats)
            /\ pc' = "export"
            /\ returned' = FALSE
       ELSE /\ stats' = stats
            /\ pc' = "done"
            /\ returned' = TRUE
    /\ UNCHANGED <<scanCount, lateEdit, folderCase, generated, wrote, applied, cols, migrated, orphaned, adopted, src, srcIds, created, files, db, rowOrder, originals, mode, dry,
                   changes, newFiles, todo, itemLog, edits, fails,
                   pending, conflictIds, refreshedAt, quiet, srcSame>>

\* the ids of a set in ascending order: the notes of export-all
RECURSIVE Ascending(_)
Ascending(ids) ==
    IF ids = {} THEN <<>>
    ELSE LET m == CHOOSE i \in ids : \A j \in ids : i <= j
         IN  <<m>> \o Ascending(ids \ {m})

\* Orchestrator.run up to its loop: _export_apple_notes; a failure of
\* export-all raises out of the pass
ExportAll ==
    /\ pc = "export"
    /\ \E ok \in BOOLEAN :
         /\ (~ok) => fails < MaxFails
         /\ fails' = IF ok THEN fails ELSE fails + 1
         /\ itemLog' = <<Ev("export-all", 0, ok)>>
         /\ IF ok
            THEN /\ todo' = Ascending(srcIds)
                 /\ stats' = [stats EXCEPT !.forward_total = Cardinality(srcIds)]
                 /\ pc' = "forward"
            ELSE /\ todo' = <<>>
                 /\ stats' = stats
                 /\ pc' = "done"
    /\ returned' = FALSE
    /\ UNCHANGED <<scanCount, lateEdit, folderCase, generated, wrote, applied, cols, migrated, orphaned, adopted, src, srcIds, created, files, db, rowOrder, originals, mode, dry,
                   changes, newFiles, edits,
                   pending, conflictIds, refreshedAt, quiet, srcSame>>

\* the body of the loop without its dry_run branch
ForwardItem_IgnoreDry(fs, d, order, st, id, note, is_dry, okGen) ==
    LET content_hash == ComputeHash(note)
        counted == IF get_note_state(d, order, id) # {} THEN Bump(st, "forward_updated")
                   ELSE Bump(st, "forward_created")
        output_path == TxtPath(note.name)
    IN  IF ~needs_update(d, order, id, content_hash)
        THEN [files |-> fs, db |-> d, order |-> order,
              stats |-> Bump(st, "forward_skipped")]
        ELSE IF okGen
        THEN [files |-> [fs EXCEPT ![Stem(output_path)] = convert_to_markdown(note)],
              db |-> [d EXCEPT ![id] = record_success_row(content_hash, output_path,
                                                          GENERATOR_TEXT)],
              order |-> Append(Without(order, id), id),
              stats |-> counted]
        ELSE [files |-> fs,
              db |-> [d EXCEPT ![id] = record_failure_row(content_hash, GENERATOR_TEXT)],
              order |-> Append(Without(order, id), id),
              stats |-> AddError(Bump(st, "forward_failed"), <<"note", note.name>>)]

\* the loop body whose record_success keeps the columns it does not name
ForwardItem_KeepColumns(fs, d, order, st, id, note, is_dry, okGen) ==
    LET content_hash == ComputeHash(note)
        existing_state == get_note_state(d, order, id)
        counted == IF existing_state # {} THEN Bump(st, "forward_updated")
                   ELSE Bump(st, "forward_created")
        output_path == TxtPath(note.name)
        same == [files |-> fs, db |-> d, order |-> order, stats |-> st]
    IN  IF ~needs_update(d, order, id, content_hash)
        THEN [same EXCEPT !.stats = Bump(st, "forward_skipped")]
        ELSE IF is_dry
        THEN [same EXCEPT !.stats = counted]
        ELSE IF okGen
        THEN [files |-> [fs EXCEPT ![Stem(output_path)] = convert_to_markdown(note)],
              db |-> [d EXCEPT ![id] =
                        [record_success_row(content_hash, output_path, GENERATOR_TEXT)
                           EXCEPT !.supernote_content_hash = d[id].supernote_content_hash,
                                  !.supernote_modified_at = d[id].supernote_modified_at,
                                  !.apple_written_hash = d[id].apple_written_hash]],
              order |-> Append(Without(order, id), id),
              stats |-> counted]
        ELSE [files |-> fs,
              db |-> [d EXCEPT ![id] = record_failure_row(content_hash, GENERATOR_TEXT)],
              order |-> Append(Without(order, id), id),
              stats |-> AddError(Bump(st, "forward_failed"), <<"note", note.name>>)]

\* Orchestrator.run: the body of the loop over the notes, for one note whose
\* generation succeeds (okGen) or fails: the files, the table and the
\* statistics after it
ForwardItem(fs, d, order, st, id, note, is_dry, okGen) ==
    LET content_hash == ComputeHash(note)
        existing_state == get_note_state(d, order, id)
        counted == IF existing_state # {} THEN Bump(st, "forward_updated")
                   ELSE Bump(st, "forward_created")
        output_path == TxtPath(note.name)
        same == [files |-> fs, db |-> d, order |-> order, stats |-> st]
    IN  IF ~needs_update(d, order, id, content_hash)
        THEN [same EXCEPT !.stats = Bump(st, "forward_skipped")]
        ELSE IF is_dry
        THEN [same EXCEPT !.stats = counted]
        ELSE IF okGen
        THEN [files |-> [fs EXCEPT ![Stem(output_path)] = convert_to_markdown(note)],
              db |-> [d EXCEPT ![id] = record_success_row(content_hash, output_path,
                                                          GENERATOR_TEXT)],
              order |-> Append(Without(order, id), id),
              stats |-> counted]
        ELSE [files |-> fs,
              db |-> [d EXCEPT ![id] = record_failure_row(content_hash, GENERATOR_TEXT)],
              order |-> Append(Without(order, id), id),
              stats |-> AddError(Bump(st, "forward_failed"), <<"note", note.name>>)]

ForwardNote ==
    /\ pc = "forward" /\ todo # <<>>
    /\ \E okGen \in BOOLEAN :
         LET id == Head(todo)
             r == ForwardItem(files, db, rowOrder, stats, id, src[id], dry, okGen)
         IN  /\ (~okGen) => /\ fails < MaxFails
                            /\ ~dry
                            /\ needs_update(db, rowOrder, id, ComputeHash(src[id]))
             /\ fails' = IF okGen THEN fails ELSE fails + 1
             /\ files' = r.files
             /\ db' = r.db
             /\ rowOrder' = r.order
             /\ stats' = r.stats
             /\ pending' = {n \in pending : r.files[n] = files[n]}
             /\ adopted' = [n \in Names |->
                               IF r.files[n] = files[n] THEN adopted[n] ELSE 0]
    /\ applied' = IF dry THEN applied ELSE applied \ {Head(todo)}
    /\ LET id == Head(todo)
           done == ~dry /\ fails' = fails
                        /\ needs_update(db, rowOrder, id, ComputeHash(src[id]))
       IN  /\ generated' = IF done THEN generated \cup {id} ELSE generated
           /\ wrote' = IF done THEN wrote \cup {Stem(TxtPath(src[id].name))}
                                ELSE wrote
    /\ todo' = Tail(todo)
    /\ itemLog' = <<>>
    /\ UNCHANGED <<scanCount, lateEdit, folderCase, cols, migrated, orphaned, src, srcIds, created, originals, pc, mode, dry, changes,
                   newFiles, edits, returned, conflictIds, refreshedAt, quiet, srcSame>>

\* Orchestrator.run returns (its orphaned outputs are only logged): the pass
\* of run_bidirectional returns, or cli.sync goes on to update_supernote_hashes
FinishForward ==
    /\ pc = "forward" /\ todo = <<>>
    /\ IF mode = "forward" /\ ~dry
       THEN pc' = "refresh" /\ returned' = FALSE
       ELSE pc' = "done" /\ returned' = TRUE
    /\ srcSame' = IF dry THEN srcSame ELSE TRUE
    /\ quiet' = IF mode = "both" /\ ~dry /\ quiet < 3 THEN quiet + 1 ELSE quiet
    /\ orphaned' = IF dry THEN <<>> ELSE get_orphaned_outputs(db, rowOrder, srcIds)
    /\ UNCHANGED <<scanCount, lateEdit, folderCase, generated, wrote, applied, cols, migrated, adopted, src, srcIds, created, files, db, rowOrder, originals, mode, dry,
                   changes, newFiles, todo, stats, itemLog, edits, fails,
                   pending, conflictIds, refreshedAt>>

\* BidirectionalSyncEngine.update_supernote_hashes over the states txt_states
RECURSIVE RefreshStates(_, _, _, _)
RefreshStates(d, order, fs, txt_states) ==
    IF txt_states = <<>> THEN d
    ELSE LET id == Head(txt_states)
             p == d[id].output_path
             d1 == IF Exists(fs, p)
                   THEN update_supernote_state(d, order, id,
                                               ContentHash(fs[Stem(p)]), FileMtime(p))
                   ELSE d
         IN  RefreshStates(d1, order, fs, Tail(txt_states))

update_supernote_hashes(d, order, fs) ==
    RefreshStates(d, order, fs, get_all_txt_states(d, order))

\* cli.sync, forward direction: update_supernote_hashes after the run
Refresh ==
    /\ pc = "refresh"
    /\ db' = update_supernote_hashes(db, rowOrder, files)
    /\ pc' = "done"
    /\ returned' = TRUE
    /\ refreshedAt' = TRUE
    /\ UNCHANGED <<scanCount, lateEdit, folderCase, generated, wrote, applied, cols, migrated, orphaned, adopted, src, srcIds, created, files, rowOrder, originals, mode, dry,
                   changes, newFiles, todo, stats, itemLog, edits, fails,
                   pending, conflictIds, quiet, srcSame>>

\* the process of the pass exits: nothing of the pass outlives it but the
\* Source, the Mirror and the state database
Exit ==
    /\ pc = "done"
    /\ pc' = "idle"
    /\ mode' = "forward"
    /\ dry' = FALSE
    /\ stats' = ZeroStats
    /\ itemLog' = <<>>
    /\ returned' = FALSE
    /\ conflictIds' = {}
    /\ orphaned' = <<>>
    /\ scanCount' = ZeroCount
    /\ UNCHANGED <<lateEdit, folderCase, generated, wrote, applied, cols, migrated, adopted, src, srcIds, created, files, db, rowOrder, originals,
                   changes, newFiles, todo, edits, fails,
                   pending, refreshedAt, quiet, srcSame>>

Next ==
    \/ EditSource
    \/ DeleteSource
    \/ EditMirror
    \/ StartPass
    \/ BackupAndScan
    \/ ProcessChange
    \/ ScanNew
    \/ ProcessNewFile
    \/ FinishReverse
    \/ ExportAll
    \/ ForwardNote
    \/ FinishForward
    \/ Refresh
    \/ Exit

Spec == Init /\ [][Next]_vars

\* the behaviours in which every pass is a full bidirectional pass
NextBoth ==
    \/ EditSource
    \/ DeleteSource
    \/ EditMirror
    \/ StartBoth
    \/ BackupAndScan
    \/ ProcessChange
    \/ ScanNew
    \/ ProcessNewFile
    \/ FinishReverse
    \/ ExportAll
    \/ ForwardNote
    \/ FinishForward
    \/ Exit

SpecBoth == Init /\ [][NextBoth]_vars

\* the behaviours that open a state database of an earlier schema
NextSchema ==
    \/ OpenStore

SpecSchema == InitSchema /\ [][NextSchema]_vars

\* the Mirror user rewrites or deletes the file of the change that is next
\* in the loop of run_reverse_sync, after scan_for_changes has listed it
EditMirrorDuring ==
    /\ pc = "changes" /\ changes # <<>> /\ edits < MaxEdits
    /\ LET n == Stem(Head(changes).path)
       IN  /\ \E t \in Texts \cup {NoFile} :
                /\ files[n] # t
                /\ files' = [files EXCEPT ![n] = t]
                /\ wrote' = IF t = NoFile THEN wrote \ {n} ELSE wrote
           /\ pending' = pending \ {n}
           /\ adopted' = [adopted EXCEPT ![n] = 0]
           /\ lateEdit' = lateEdit \cup {n}
    /\ edits' = edits + 1
    /\ quiet' = 0
    /\ refreshedAt' = FALSE
    /\ UNCHANGED <<scanCount, folderCase, generated, applied, cols, migrated, orphaned, src,
                   srcIds, created, db, rowOrder, originals, pc, mode, dry,
                   changes, newFiles, todo, stats, itemLog, fails, returned,
                   conflictIds, srcSame>>

\* the passes, with a Mirror user who also edits while a reverse phase runs
NextLive ==
    \/ EditSource
    \/ DeleteSource
    \/ EditMirror
    \/ EditMirrorDuring
    \/ StartPass
    \/ BackupAndScan
    \/ ProcessChange
    \/ ScanNew
    \/ ProcessNewFile
    \/ FinishReverse
    \/ ExportAll
    \/ ForwardNote
    \/ FinishForward
    \/ Refresh
    \/ Exit

SpecLive == Init /\ [][NextLive]_vars

\* a new .txt file somewhere under the Apple/ directory or beside it
InitFolder ==
    /\ src = [i \in AllIds |-> IF i \in SeedIds THEN Note(1, 1) ELSE NoNote]
    /\ srcIds = SeedIds
    /\ created = 0
    /\ files = [n \in Names |-> NoFile]
    /\ db = [i \in AllIds |-> NoRow]
    /\ rowOrder = <<>>
    /\ originals = <<>>
    /\ pc = "idle"
    /\ mode = "forward"
    /\ dry = FALSE
    /\ changes = <<>>
    /\ newFiles = <<>>
    /\ todo = <<>>
    /\ stats = ZeroStats
    /\ itemLog = <<>>
    /\ edits = 0
    /\ fails = 0
    /\ returned = FALSE
    /\ pending = {}
    /\ conflictIds = {}
    /\ refreshedAt = FALSE
    /\ quiet = 0
    /\ srcSame = FALSE
    /\ adopted = [n \in Names |-> 0]
    /\ orphaned = <<>>
    /\ cols = AdditiveCols
    /\ migrated = {}
    /\ applied = {}
    /\ generated = {}
    /\ wrote = {}
    /\ lateEdit = {}
    /\ scanCount = ZeroCount
    /\ \E under \in BOOLEAN, dirs \in SeqsUpTo(FolderNames, MaxDepth) :
         folderCase = [NoCase EXCEPT
                         !.txt_path = (IF under THEN apple_notes_dir ELSE OtherDir)
                                         \o dirs \o <<"note.txt">>,
                         !.dirs = dirs, !.under = under]

\* run_reverse_sync, the loop over the new files, for the file of folderCase:
\* get_apple_folder_path, then the create-note of create_apple_note_from_txt
CreateInFolder ==
    /\ folderCase.txt_path # <<>> /\ ~folderCase.called
    /\ LET apple_folder_path ==
               get_apple_folder_path(apple_notes_dir, folderCase.txt_path)
       IN  folderCase' = [folderCase EXCEPT
                            !.called = TRUE,
                            !.apple_folder_path = apple_folder_path,
                            !.folder_name = folder_name_argument(apple_folder_path)]
    /\ UNCHANGED <<scanCount, lateEdit, src, srcIds, created, files, db, rowOrder, originals, pc, mode,
                   dry, changes, newFiles, todo, stats, itemLog, edits, fails,
                   returned, pending, conflictIds, refreshedAt, quiet, srcSame,
                   adopted, orphaned, cols, migrated, applied, generated, wrote>>

NextFolder ==
    \/ CreateInFolder

\* the behaviours that create a note from one new file
SpecFolder == InitFolder /\ [][NextFolder]_vars

\* the store after record_success(1, ..., is_locked=True) for the seed note,
\* its text file written to the Mirror
InitLocked ==
    /\ src = [i \in AllIds |-> IF i \in SeedIds THEN Note(1, 1) ELSE NoNote]
    /\ srcIds = SeedIds
    /\ created = 0
    /\ files = [n \in Names |->
                  IF n = 1 THEN convert_to_markdown(Note(1, 1)) ELSE NoFile]
    /\ db = [i \in AllIds |->
               IF i = 1
               THEN [record_success_row(ComputeHash(Note(1, 1)), TxtPath(1),
                                        GENERATOR_TEXT) EXCEPT !.is_locked = TRUE]
               ELSE NoRow]
    /\ rowOrder = <<1>>
    /\ originals = <<>>
    /\ pc = "idle"
    /\ mode = "forward"
    /\ dry = FALSE
    /\ changes = <<>>
    /\ newFiles = <<>>
    /\ todo = <<>>
    /\ stats = ZeroStats
    /\ itemLog = <<>>
    /\ edits = 0
    /\ fails = 0
    /\ returned = FALSE
    /\ pending = {}
    /\ conflictIds = {}
    /\ refreshedAt = FALSE
    /\ quiet = 0
    /\ srcSame = FALSE
    /\ adopted = [n \in Names |-> 0]
    /\ orphaned = <<>>
    /\ cols = AdditiveCols
    /\ migrated = {}
    /\ applied = {}
    /\ generated = {1}
    /\ wrote = {1}
    /\ folderCase = NoCase
    /\ lateEdit = {}
    /\ scanCount = ZeroCount

\* the behaviours of the passes over a store that holds a locked note
SpecLocked == InitLocked /\ [][Next]_vars

(***************************************************************************)
(* Properties.                                                             *)
(***************************************************************************)
TxtIds == Range(get_all_txt_states(db, rowOrder))

FullPassReturned == pc = "done" /\ returned /\ mode = "both" /\ ~dry

\* C1: when a full bidirectional pass that is not a dry run returns (no call
\* of it having failed), every tracked plain-text state whose Mirror file
\* exists has a supernote_content_hash equal to the current fingerprint of
\* that file
C1_FingerprintsFreshAtReturn ==
    (FullPassReturned /\ fails = 0) =>
        \A id \in TxtIds :
            Exists(files, db[id].output_path) =>
                db[id].supernote_content_hash
                    = ContentHash(files[Stem(db[id].output_path)])

\* C2: over full bidirectional passes only, the forward phase never
\* overwrites a tracked Mirror file that holds a user edit which no pass has
\* applied to the Source or counted as a conflict
C2_NoUnseenOverwrite ==
    [][\A n \in Names :
          (pc = "forward" /\ files'[n] # files[n]) => n \notin pending]_vars

\* the reverse phase is at a modified ChangedFile of a note that exists on the
\* Source with a hash other than the stored content_hash
ConflictCase ==
    /\ pc = "changes" /\ changes # <<>> /\ ~dry
    /\ Head(changes).change_type = MODIFIED
    /\ Head(changes).apple_note_id \in srcIds
    /\ HasRow(rowOrder, Head(changes).apple_note_id)
    /\ ComputeHash(src[Head(changes).apple_note_id])
         # db[Head(changes).apple_note_id].content_hash

\* the item counts one conflict and changes nothing: no snapshot, no
\* update-note or delete-note, no BackupRecord, every NoteState as it was
ConflictOnly ==
    /\ stats'.conflicts_detected = stats.conflicts_detected + 1
    /\ stats'.conflicts_resolved_apple_wins = stats.conflicts_resolved_apple_wins + 1
    /\ stats'.reverse_modified = stats.reverse_modified
    /\ itemLog' = <<Ev("export-note", Head(changes).apple_note_id, TRUE)>>
    /\ src' = src /\ srcIds' = srcIds
    /\ db' = db /\ rowOrder' = rowOrder
    /\ originals' = originals

\* C3 as claimed: a modified ChangedFile of a note whose Source hash differs
\* from the stored one is counted as one conflict and nothing is applied
C3_ConflictNeverApplied == [][ConflictCase => ConflictOnly]_vars

\* C3: the same when the re-read of the Source by the conflict check succeeds
C3_ConflictNotApplied ==
    [][(ConflictCase /\ itemLog' # <<>> /\ itemLog'[1][3]) => ConflictOnly]_vars

C3_Witness ==
    /\ pc = "changes" /\ ~dry /\ stats.conflicts_detected = 1
    /\ \E id \in srcIds :
         /\ itemLog = <<Ev("export-note", id, TRUE)>>
         /\ id \in conflictIds
         /\ ComputeHash(src[id]) # db[id].content_hash

\* the forward phase of a full pass is at a note for which the reverse phase
\* of the same pass counted a conflict
AfterConflict ==
    /\ pc = "forward" /\ todo # <<>> /\ mode = "both" /\ ~dry
    /\ Head(todo) \in conflictIds

\* the note's Mirror file holds the Markdown of the note, and its state the
\* hash of the note, with a successful outcome
Regenerated(id) ==
    /\ files'[Stem(TxtPath(src[id].name))] = convert_to_markdown(src[id])
    /\ db'[id].content_hash = ComputeHash(src[id])
    /\ db'[id].success
    /\ db'[id].output_path = TxtPath(src[id].name)

C5_EchoSuppressed ==
    refreshedAt =>
        \A k \in 1..Len(scan_for_changes(db, rowOrder, files)) :
            scan_for_changes(db, rowOrder, files)[k].change_type # MODIFIED

C5_Witness ==
    /\ refreshedAt /\ pc = "changes" /\ mode \in {"reverse", "both"} /\ ~dry
    /\ \E id \in TxtIds :
         /\ db[id].supernote_content_hash # None
         /\ Exists(files, db[id].output_path)
         /\ db[id].supernote_content_hash
              = ContentHash(files[Stem(db[id].output_path)])

\* the pass issued no create, update or delete on the Source and generated no
\* Mirror file
Quiescent(st) ==
    /\ st.reverse_modified = 0 /\ st.reverse_deleted = 0 /\ st.reverse_created = 0
    /\ st.reverse_failed = 0
    /\ st.forward_created = 0 /\ st.forward_updated = 0 /\ st.forward_failed = 0

\* C6: with no external edit, no call failed by the transport and a Source
\* that has ids left to give, the third full pass in a row, and every one
\* after it, is quiescent
C6_QuiescentAfterTwo ==
    (FullPassReturned /\ quiet = 3 /\ fails = 0 /\ created < MaxFresh)
        => Quiescent(stats)

\* C7: after a reverse pass that applied what it found (no failed call, no
\* conflict), the detector has no ChangedFile for a second reverse pass
C7_ReverseIdempotent ==
    (/\ pc = "done" /\ returned /\ mode = "reverse" /\ ~dry /\ fails = 0
     /\ stats.reverse_failed = 0 /\ stats.conflicts_detected = 0)
        => scan_for_changes(db, rowOrder, files) = <<>>

\* C8: a forward phase that runs with no change of the Source since the last
\* completed forward phase skips every note: it writes no file and no state
C8_ForwardIdempotent ==
    [][(pc = "forward" /\ todo # <<>> /\ srcSame) =>
          /\ stats'.forward_skipped = stats.forward_skipped + 1
          /\ stats'.forward_created = 0 /\ stats'.forward_updated = 0
          /\ stats'.forward_failed = 0
          /\ files' = files /\ db' = db /\ rowOrder' = rowOrder]_vars

C8_Witness ==
    /\ pc = "forward" /\ todo = <<>> /\ srcSame /\ ~dry
    /\ stats.forward_total >= 1
    /\ stats.forward_skipped = stats.forward_total
    /\ \E id \in srcIds : db[id].success

\* the reverse phase is at a deleted ChangedFile
DeleteCase ==
    /\ pc = "changes" /\ changes # <<>> /\ ~dry
    /\ Head(changes).change_type = DELETED

Issued(log, op, id) == {k \in 1..Len(log) : log[k][1] = op /\ log[k][2] = id}

\* one BackupRecord of the note is added, and it is written before the
\* delete-note call
OneBackupBeforeDelete(id) ==
    /\ Len(originals') = Len(originals) + 1
    /\ SubSeq(originals', 1, Len(originals)) = originals
    /\ originals'[Len(originals')].apple_note_id = id
    /\ Cardinality(Issued(itemLog', "record_original", id)) = 1
    /\ \A k \in Issued(itemLog', "record_original", id) :
         \A j \in Issued(itemLog', "delete-note", id) : k < j

\* C9 as claimed: a delete-note is only issued after exactly one BackupRecord
\* of the note has been created by the same item
C9_DeleteAlwaysBackedUp ==
    [][(DeleteCase /\ Issued(itemLog', "delete-note", Head(changes).apple_note_id) # {})
          => OneBackupBeforeDelete(Head(changes).apple_note_id)]_vars

\* C9: a deletion the reverse phase processes (no conflict counted) issues
\* delete-note; when the snapshot succeeds exactly one BackupRecord of the
\* note is created before it, and when the snapshot fails none is
C9_DeleteBackedUp ==
    [][(DeleteCase /\ stats'.conflicts_detected = stats.conflicts_detected)
          => /\ Issued(itemLog', "delete-note", Head(changes).apple_note_id) # {}
             /\ IF Ev("create-note-originals", Head(changes).apple_note_id, TRUE)
                    \in Range(itemLog')
                THEN OneBackupBeforeDelete(Head(changes).apple_note_id)
                ELSE originals' = originals]_vars

C9_Witness ==
    /\ pc = "changes" /\ ~dry /\ stats.reverse_deleted = 1
    /\ stats.originals_backed_up = 1
    /\ \E id \in AllIds :
         /\ Ev("delete-note", id, TRUE) \in Range(itemLog)
         /\ Ev("record_original", id, TRUE) \in Range(itemLog)
         /\ originals # <<>>
         /\ originals[Len(originals)].apple_note_id = id
         /\ id \notin srcIds

\* C10: once the reverse phase has created a note from an untracked file,
\* the new id has a state whose apple_written_hash is the fingerprint of the
\* HTML written
C10_CreatedNoteTracked ==
    \A id \in AllIds :
        (pc = "newfiles" /\ fails = 0
         /\ Ev("create-note", id, TRUE) \in Range(itemLog)) =>
            /\ get_note_state(db, rowOrder, id) # {}
            /\ db[id].apple_written_hash = ContentHash(src[id].body)
\* C11: a Mirror file that nobody has written since has at most one Source
\* note created from it, whatever the number of reverse or full passes (no
\* call having failed)
C11_AdoptedOnce ==
    fails = 0 => \A n \in Names : adopted[n] <= 1

\* the forward phase exports, generates or records in this step
ForwardActs ==
    \/ files' # files
    \/ rowOrder' # rowOrder
    \/ itemLog' # itemLog /\ Issued(itemLog', "export-all", 0) # {}

\* C12: in a full pass the whole-Source snapshot, when attempted, is the first
\* call and the pass goes on to the scan whatever its outcome; the reverse phase
\* handles every detected change and every new file in turn; the forward phase
\* starts only when both lists are exhausted, and only it exports, generates
\* or records
C12_PassOrdering ==
    [][(mode' = "both" /\ pc # "idle") =>
         /\ pc = "backup" =>
               /\ itemLog = <<>>
               /\ pc' = "changes"
               /\ changes' = scan_for_changes(db, rowOrder, files)
               /\ \A k \in 1..Len(itemLog') : itemLog'[k][1] = "backup-all" /\ k = 1
         /\ (pc = "changes" /\ changes # <<>>) =>
               pc' = "changes" /\ changes' = Tail(changes)
         /\ (pc = "changes" /\ changes = <<>>) =>
               pc' = "newfiles" /\ newFiles' = scan_for_new_files(db, rowOrder, files)
         /\ (pc = "newfiles" /\ newFiles # <<>>) =>
               pc' = "newfiles" /\ newFiles' = Tail(newFiles)
         /\ pc' = "export" => pc = "newfiles" /\ newFiles = <<>> /\ changes = <<>>
         /\ pc' = "forward" => pc \in {"export", "forward"}
         /\ ForwardActs => pc \in {"export", "forward"}
         /\ (itemLog' # itemLog /\ Issued(itemLog', "backup-all", 0) # {}) =>
               pc = "backup"]_vars

\* a full pass whose snapshot failed is handling the changes it detected
C12_Witness ==
    /\ mode = "both" /\ pc = "changes" /\ changes # <<>>
    /\ itemLog = <<Ev("backup-all", 0, FALSE)>>

\* the calls that change the Source or snapshot it
MutatingCalls == {"create-note", "update-note", "delete-note", "backup-all"}

\* C13: during a dry run, of any direction, no step issues create-note,
\* update-note, delete-note or backup-all, writes a Mirror file, or changes a
\* NoteState or the ledger of the originals
C13_DryRunChangesNothing ==
    [][(dry /\ pc # "idle") =>
         /\ UNCHANGED <<src, srcIds, created, files, db, rowOrder, originals>>
         /\ \A k \in 1..Len(itemLog') : itemLog'[k][1] \notin MutatingCalls]_vars

\* a dry full pass returned after counting a change of the Mirror it would
\* apply and a note it would generate
C13_Witness ==
    /\ dry /\ mode = "both" /\ pc = "done" /\ returned
    /\ stats.reverse_modified + stats.reverse_deleted >= 1
    /\ stats.forward_created + stats.forward_updated >= 1

\* the content hashes the notes of the model can have
SourceHashes ==
    {ComputeHash([name |-> n, body |-> <<"html", b>>, mdate |-> m]) :
        n \in Names, b \in Bodies, m \in 0..MaxEdits}

\* this step is a forward item that ran record_success for the note id
RecordedSuccess(id) ==
    /\ pc = "forward" /\ todo # <<>> /\ Head(todo) = id /\ ~dry
    /\ needs_update(db, rowOrder, id, ComputeHash(src[id]))
    /\ fails' = fails

\* C14: on every store the passes produce, needs_update(id, h) is true exactly
\* when id has no state or its stored content_hash differs from h; and right
\* after record_success(id, _, h, path, kind) it is false for h and true for
\* every other hash
C14_NeedsUpdateExact ==
    /\ [](\A id \in AllIds, h \in SourceHashes :
            needs_update(db, rowOrder, id, h)
              <=> (id \notin Range(rowOrder) \/ db[id].content_hash # h))
    /\ [][\A id \in AllIds :
            RecordedSuccess(id) =>
              LET h == ComputeHash(src[id])
              IN  /\ ~needs_update(db', rowOrder', id, h)
                  /\ \A h2 \in SourceHashes \ {h} :
                        needs_update(db', rowOrder', id, h2)]_vars

\* the store holds the state of a note whose generation failed, for which
\* needs_update is false, and the state of a note edited since it was
\* generated, for which it is true
C14_Witness ==
    /\ \E id \in srcIds :
         /\ id \in Range(rowOrder) /\ ~db[id].success
         /\ ~needs_update(db, rowOrder, id, ComputeHash(src[id]))
    /\ \E id \in srcIds :
         /\ id \in Range(rowOrder) /\ db[id].success
         /\ needs_update(db, rowOrder, id, ComputeHash(src[id]))

\* the ChangedFile the state of id calls for, as a set: empty when its file
\* exists and has no baseline or equals it
Expected(id) ==
    LET p == db[id].output_path
        current_hash == ContentHash(files[Stem(p)])
        previous_hash == db[id].supernote_content_hash
    IN  IF ~Exists(files, p)
        THEN {ChangedFile(p, DELETED, id, None, None, previous_hash)}
        ELSE IF previous_hash # None /\ current_hash # previous_hash
        THEN {ChangedFile(p, MODIFIED, id, current_hash, FileMtime(p), previous_hash)}
        ELSE {}

\* C15: scan_for_changes returns the ChangedFile of each tracked text state
\* that changed exactly once, and nothing else (no call having failed)
C15_OnePerTrackedState ==
    fails = 0 =>
    LET cs == scan_for_changes(db, rowOrder, files)
    IN  /\ \A id \in TxtIds :
             /\ Cardinality({k \in 1..Len(cs) : cs[k].apple_note_id = id})
                   = Cardinality(Expected(id))
             /\ Expected(id) \subseteq Range(cs)
        /\ \A k \in 1..Len(cs) : cs[k].apple_note_id \in TxtIds

\* the forward phase of the running or last pass ran to its end, not dry
ForwardCompleted ==
    /\ ~dry /\ mode # "reverse"
    /\ pc = "refresh" \/ (pc = "done" /\ returned)

\* C16: once the forward phase has run, the orphaned outputs it lists hold the
\* output_path of every successful state whose note is no longer on the
\* Source; and no step of a pass deletes a Mirror file or removes a state
C16_OrphansReportOnly ==
    /\ [](ForwardCompleted =>
            \A id \in Range(rowOrder) :
              (db[id].success /\ id \notin srcIds) =>
                 db[id].output_path \in Range(orphaned))
    /\ [][pc # "idle" =>
            /\ \A n \in Names : files[n] # NoFile => files'[n] # NoFile
            /\ Range(rowOrder) \subseteq Range(rowOrder')]_vars

\* a pass returned after listing an orphaned output whose file is still on
\* the Mirror and whose state is still in the table
C16_Witness ==
    /\ pc = "done" /\ returned /\ ForwardCompleted
    /\ \E id \in Range(rowOrder) :
         /\ db[id].success /\ id \notin srcIds
         /\ db[id].output_path \in Range(orphaned)
         /\ Exists(files, db[id].output_path)

\* C17: a full pass that has ended returned its statistics, whatever Source
\* call failed during it
C17_PassAlwaysReturns ==
    (pc = "done" /\ mode = "both") => returned

\* the counters of the terminal outcomes of the reverse phase
Outcomes == {"reverse_modified", "reverse_deleted", "reverse_created",
             "reverse_skipped", "reverse_failed"}

\* this step counted exactly one terminal outcome, and one error entry, the
\* entry e, exactly when the outcome is a failure
OneOutcome(e) ==
    /\ \E f \in Outcomes :
         /\ stats'[f] = stats[f] + 1
         /\ \A g \in Outcomes \ {f} : stats'[g] = stats[g]
    /\ IF stats'.reverse_failed > stats.reverse_failed
       THEN stats'.errors = Append(stats.errors, e)
       ELSE stats'.errors = stats.errors

\* C18: each step of the reverse phase takes the next ChangedFile, or the next
\* new file, to exactly one terminal outcome and goes on to the rest of the
\* list, whatever failed before; a failed item adds exactly one error entry,
\* which carries its path
C18_FailureIsolation ==
    [][/\ (pc = "changes" /\ changes # <<>>) =>
             /\ OneOutcome(<<Head(changes).path, Head(changes).apple_note_id>>)
             /\ changes' = Tail(changes) /\ pc' = "changes"
       /\ (pc = "newfiles" /\ newFiles # <<>>) =>
             /\ OneOutcome(<<Head(newFiles), 0>>)
             /\ newFiles' = Tail(newFiles) /\ pc' = "newfiles"]_vars

\* the reverse phase has created a note from the last new file after the
\* item before it failed
C18_Witness ==
    /\ pc = "newfiles" /\ newFiles = <<>> /\ ~dry
    /\ stats.reverse_failed = 1 /\ Len(stats.errors) = 1
    /\ stats.reverse_created = 1
    /\ itemLog = <<Ev("create-note", created + NumSeed, TRUE)>>

\* C19: every step leaves the records the ledger of the originals holds as
\* they are, in their order: it can only add records after them
C19_LedgerAppendOnly ==
    [][/\ Len(originals') >= Len(originals)
       /\ SubSeq(originals', 1, Len(originals)) = originals]_vars

\* the ledger holds two records of one note, the older one the original of
\* the note before the first of two applied changes
C19_Witness ==
    /\ Len(originals) >= 2
    /\ originals[1].apple_note_id = originals[2].apple_note_id

\* the value a field of a column added by a migration reads as
Absent(col) == IF col = "is_locked" THEN FALSE ELSE None

\* C20: opening the state database on a note_state table that lacks some of
\* the additive columns gives a table with all of them, in which every row
\* keeps the fields of the columns it had and reads each added field as
\* absent, is_locked as false; and opening a table that has all the columns
\* changes nothing
C20_SchemaEvolution ==
    /\ [][/\ cols' = AdditiveCols
           /\ rowOrder' = rowOrder
           /\ \A id \in Range(rowOrder) :
                /\ \A col \in OriginalCols \cup cols : db'[id][col] = db[id][col]
                /\ \A col \in AdditiveCols \ cols : db'[id][col] = Absent(col)]_vars
    /\ [](cols = AdditiveCols =>
            /\ run_migrations(db, rowOrder, cols) = db
            /\ Migrated(cols) = {})

\* the state database was opened on a table of two rows that had some of the
\* additive columns, filled, and lacked others
C20_Witness ==
    /\ cols = AdditiveCols /\ Len(rowOrder) = 2
    /\ migrated = {"apple_written_hash", "is_locked"}
    /\ db[1].supernote_content_hash = ContentHash(Text(1, 1))
    /\ db[1].apple_written_hash = None /\ db[1].is_locked = FALSE

\* the calls of the Reverse Applier that change a note
Mutations == {"update-note", "delete-note"}

\* the calls and the ledger write a snapshot attempt for id leaves in the log:
\* the read failed, the copy failed, or the record was written
SnapshotAttempts(id) ==
    { <<Ev("export-note", id, FALSE)>>,
      <<Ev("export-note", id, TRUE), Ev("create-note-originals", id, FALSE)>>,
      <<Ev("export-note", id, TRUE), Ev("create-note-originals", id, TRUE),
        Ev("record_original", id, TRUE)>> }

\* C21: in the item of a change, update-note or delete-note is the last call,
\* and what comes before it, after the export-note of the conflict check, is
\* one snapshot attempt for the same note; when that attempt wrote a record,
\* the record holds the content the note had before the call
C21_SnapshotPrecedesMutation ==
    [][(pc = "changes" /\ changes # <<>> /\ ~dry) =>
         \A k \in 1..Len(itemLog') :
           itemLog'[k][1] \in Mutations =>
             LET id == Head(changes).apple_note_id
                 first == IF HasRow(rowOrder, id) THEN 2 ELSE 1
                 attempt == SubSeq(itemLog', first, k - 1)
             IN  /\ k = Len(itemLog') /\ itemLog'[k][2] = id
                 /\ attempt \in SnapshotAttempts(id)
                 /\ IF Len(attempt) = 3
                    THEN /\ Len(originals') = Len(originals) + 1
                         /\ originals'[Len(originals')].apple_note_id = id
                         /\ originals'[Len(originals')].original_html = src[id].body
                         /\ originals'[Len(originals')].original_content
                               = PlainText(src[id].body)
                    ELSE originals' = originals]_vars

\* update-note has rewritten a note whose snapshot succeeded: the last record
\* of the ledger holds a body the note no longer has
C21_Witness ==
    /\ pc = "changes" /\ Len(itemLog) = 5 /\ originals # <<>>
    /\ \E id \in srcIds :
         /\ itemLog[5] = Ev("update-note", id, TRUE)
         /\ itemLog[4] = Ev("record_original", id, TRUE)
         /\ originals[Len(originals)].apple_note_id = id
         /\ originals[Len(originals)].original_html # src[id].body

\* the snapshot attempt of the item logged in log, for a note whose attempt
\* starts at place first, failed at its read or at its copy
SnapshotFailed(log, first, id) ==
    /\ Len(log) >= first
    /\ \/ log[first] = Ev("export-note", id, FALSE)
       \/ Len(log) > first /\ log[first + 1] = Ev("create-note-originals", id, FALSE)

\* C22: when the snapshot of an item failed, update-note or delete-note is
\* issued all the same, no record is added to the ledger and no backup is
\* counted; when that call succeeds the item counts as modified or deleted,
\* not as failed
C22_BackupBestEffort ==
    [][(pc = "changes" /\ changes # <<>> /\ ~dry) =>
         LET id == Head(changes).apple_note_id
             first == IF HasRow(rowOrder, id) THEN 2 ELSE 1
             last == itemLog'[Len(itemLog')]
         IN  SnapshotFailed(itemLog', first, id) =>
               /\ last[1] \in Mutations /\ last[2] = id
               /\ originals' = originals
               /\ stats'.originals_backed_up = stats.originals_backed_up
               /\ last[3] =>
                    /\ stats'.reverse_failed = stats.reverse_failed
                    /\ stats'.reverse_modified + stats'.reverse_deleted
                          = stats.reverse_modified + stats.reverse_deleted + 1]_vars

\* a file deleted on the Mirror had its note deleted although the read of the
\* snapshot failed: one deletion counted, no backup, an empty ledger
C22_Witness ==
    /\ pc = "changes" /\ Len(itemLog) = 3 /\ originals = <<>>
    /\ itemLog[2][1] = "export-note" /\ ~itemLog[2][3]
    /\ itemLog[3][1] = "delete-note" /\ itemLog[3][3]
    /\ stats.reverse_deleted = 1 /\ stats.originals_backed_up = 0

\* this step is the item of a modified file whose update-note succeeded, for
\* the note id
ReverseApplied(id) ==
    /\ pc = "changes" /\ changes # <<>> /\ ~dry
    /\ Head(changes).change_type = MODIFIED /\ Head(changes).apple_note_id = id
    /\ itemLog' # <<>>
    /\ itemLog'[Len(itemLog')] = Ev("update-note", id, TRUE)

\* C23: after a successful reverse apply of a modified file the state of the
\* note holds the hash of the HTML written as apple_written_hash, and its
\* content_hash is no longer the one stored before the apply
C23_ReverseApplyPostcondition ==
    [][\A id \in AllIds :
         ReverseApplied(id) =>
           /\ db'[id].apple_written_hash = ContentHash(src'[id].body)
           /\ db'[id].content_hash # db[id].content_hash]_vars

\* C24: the forward phase finds needs_update false for a note the reverse
\* phase rewrote and nobody edited on the Source since, and its item leaves
\* the Mirror files as they are (no call having failed)
C24_NoSpuriousForward ==
    [][(pc = "forward" /\ todo # <<>> /\ Head(todo) \in applied /\ fails = 0) =>
         /\ ~needs_update(db, rowOrder, Head(todo), ComputeHash(src[Head(todo)]))
         /\ files' = files]_vars

\* C25: a modification of the file of a note the reverse phase rewrote before,
\* nobody having edited the note on the Source nor any forward item having run
\* for it since, is applied and counted as no conflict (no call failing)
C25_NoFalseConflict ==
    [][(/\ pc = "changes" /\ changes # <<>> /\ ~dry /\ fails' = 0
        /\ Head(changes).change_type = MODIFIED
        /\ Head(changes).apple_note_id \in applied) =>
         /\ stats'.conflicts_detected = stats.conflicts_detected
         /\ stats'.reverse_modified = stats.reverse_modified + 1]_vars

\* C26: last_sync_direction is from_supernote after a successful reverse
\* apply of a modified file, and to_supernote after record_success and
\* after the refresh of the fingerprints by the forward side
C26_DirectionNamesLastPhase ==
    [][\A id \in AllIds :
         /\ ReverseApplied(id) => db'[id].last_sync_direction = FROM_SUPERNOTE
         /\ RecordedSuccess(id) => db'[id].last_sync_direction = TO_SUPERNOTE
         /\ (pc = "refresh" /\ id \in TxtIds /\ Exists(files, db[id].output_path)) =>
               db'[id].last_sync_direction = TO_SUPERNOTE]_vars

\* C27: scan_for_changes reports no modified ChangedFile for a tracked state
\* that has no supernote_content_hash, whatever its file holds; for such a
\* state it reports a deletion or nothing
C27_NoBaselineNeverModified ==
    LET cs == scan_for_changes(db, rowOrder, files)
    IN  \A k \in 1..Len(cs) :
          db[cs[k].apple_note_id].supernote_content_hash = None =>
            /\ cs[k].change_type = DELETED
            /\ ~Exists(files, cs[k].path)

\* the scan of a pass returned nothing although the file of a tracked state
\* without baseline holds something else than what was generated from its note
C27_Witness ==
    /\ pc = "changes" /\ changes = <<>> /\ itemLog = <<>>
    /\ \E id \in TxtIds \cap srcIds :
         /\ db[id].supernote_content_hash = None
         /\ Exists(files, db[id].output_path)
         /\ files[Stem(db[id].output_path)] # convert_to_markdown(src[id])
         /\ db[id].content_hash = ComputeHash(src[id])

\* C28: the output_path of a note's state is non-empty exactly when a forward
\* generation has succeeded for the note; a failure recorded after a success
\* does not empty it
C28_OutputPathIffGenerated ==
    \A id \in AllIds : (db[id].output_path # EmptyPath) <=> (id \in generated)

\* C29: a scan for new files never returns a text file the forward phase
\* itself wrote to the Mirror, also after a later forward generation of the
\* note failed
C29_NewFilesNotForwardWritten ==
    [][(pc = "changes" /\ changes = <<>>) =>
         \A k \in 1..Len(newFiles') : Stem(newFiles'[k]) \notin wrote]_vars

\* C30: when the export-note of the conflict check fails on a note the Source
\* holds, the item counts no conflict and is not skipped: the applier makes
\* its snapshot attempt and then issues update-note or delete-note
C30_FailedCheckStillApplies ==
    [][(/\ pc = "changes" /\ changes # <<>> /\ ~dry
        /\ HasRow(rowOrder, Head(changes).apple_note_id)
        /\ Head(changes).apple_note_id \in srcIds
        /\ itemLog' # <<>>
        /\ itemLog'[1] = Ev("export-note", Head(changes).apple_note_id, FALSE)) =>
         LET id == Head(changes).apple_note_id
             last == itemLog'[Len(itemLog')]
         IN  /\ stats'.conflicts_detected = stats.conflicts_detected
             /\ stats'.conflicts_resolved_apple_wins
                  = stats.conflicts_resolved_apple_wins
             /\ stats'.reverse_skipped = stats.reverse_skipped
             /\ Len(itemLog') >= 3
             /\ SubSeq(itemLog', 2, Len(itemLog') - 1) \in SnapshotAttempts(id)
             /\ last[2] = id
             /\ last[1] = IF Head(changes).change_type = MODIFIED
                          THEN "update-note" ELSE "delete-note"]_vars

\* the check of a modified file could not read a note the Source user had
\* edited since the last forward pass; the note was snapshotted and rewritten
\* and no conflict was counted
C30_Witness ==
    /\ pc = "changes" /\ Len(itemLog) = 5 /\ originals # <<>>
    /\ stats.conflicts_detected = 0 /\ stats.reverse_modified = 1
    /\ \E id \in srcIds :
         /\ itemLog[1] = Ev("export-note", id, FALSE)
         /\ itemLog[2] = Ev("export-note", id, TRUE)
         /\ itemLog[5] = Ev("update-note", id, TRUE)
         /\ originals[Len(originals)].apple_note_id = id
         /\ originals[Len(originals)].original_content # db[id].content_hash[1][2]

\* the counters of the reverse phase and of the forward phase
ReverseCounters == {"reverse_modified", "reverse_deleted", "reverse_created",
                    "reverse_skipped", "reverse_failed", "conflicts_detected",
                    "conflicts_resolved_apple_wins", "originals_backed_up"}
ForwardCounters == {"forward_total", "forward_created", "forward_updated",
                    "forward_skipped", "forward_failed"}

\* errs continues the list old
Extends(errs, old) ==
    Len(errs) >= Len(old) /\ SubSeq(errs, 1, Len(old)) = old

\* C31: the statistics of a bidirectional pass hold, counter by counter, the
\* statistics its reverse phase returned and those of its forward phase, and
\* its errors are the reverse errors followed by the forward errors
C31_StatsAggregate ==
    [][(mode = "both") =>
         /\ (pc = "newfiles" /\ newFiles = <<>>) =>
               /\ \A f \in ReverseCounters : stats'[f] = stats[f]
               /\ \A f \in ForwardCounters : stats'[f] = 0
               /\ stats'.errors = stats.errors
         /\ (pc \in {"export", "forward"}) =>
               /\ \A f \in ReverseCounters : stats'[f] = stats[f]
               /\ Extends(stats'.errors, stats.errors)]_vars

\* the state of the note id records a failed generation of the note as the
\* Source holds it now
FailedUnchanged(id) ==
    /\ HasRow(rowOrder, id) /\ ~db[id].success /\ db[id].error
    /\ db[id].content_hash = ComputeHash(src[id])

\* C32: a note whose generation failed in an earlier pass and that is
\* unchanged on the Source is generated again by the next forward pass, not
\* skipped as up to date
C32_RerunRetriesFailure ==
    [][(pc = "forward" /\ todo # <<>> /\ ~dry /\ FailedUnchanged(Head(todo))) =>
         /\ stats'.forward_skipped = stats.forward_skipped
         /\ \/ db'[Head(todo)].success
            \/ stats'.forward_failed = stats.forward_failed + 1]_vars

C34_FolderFromFullPath ==
    folderCase.called =>
      /\ folderCase.apple_folder_path
           = (IF folderCase.under THEN folderCase.dirs ELSE <<>>)
      /\ folderCase.folder_name = folderCase.apple_folder_path
      /\ (folderCase.dirs = <<>> \/ ~folderCase.under) =>
            folderCase.folder_name = NoFolder

\* this step hands the change of a modified file to the applier (no conflict
\* was counted for it) while the content of the file has the hash the state
\* of its note stores as supernote_content_hash
EchoAtApply ==
    /\ pc = "changes" /\ changes # <<>> /\ ~dry
    /\ Head(changes).change_type = MODIFIED
    /\ Exists(files, Head(changes).path)
    /\ HasRow(rowOrder, Head(changes).apple_note_id)
    /\ db[Head(changes).apple_note_id].supernote_content_hash
         = ContentHash(files[Stem(Head(changes).path)])
    /\ stats'.conflicts_detected = stats.conflicts_detected
    /\ changes' # changes

\* C35: an item of a modified file whose content at apply time has the stored
\* Mirror hash ends as skipped, with no snapshot, no ledger record, no call of
\* the applier on the Source and no change of the state; it is counted as
\* skipped and not as failed
C35_EchoIsNoop ==
    [][EchoAtApply =>
         /\ stats' = Bump(stats, "reverse_skipped")
         /\ itemLog' = <<Ev("export-note", Head(changes).apple_note_id,
                            itemLog'[1][3])>>
         /\ originals' = originals
         /\ src' = src /\ srcIds' = srcIds
         /\ db' = db /\ rowOrder' = rowOrder
         /\ files' = files]_vars

\* the Mirror user put the file back to the content of the baseline after the
\* scan had listed it as modified, and its item was skipped: one call (the
\* conflict check), nothing failed, no conflict, an empty ledger
C35_Witness ==
    /\ pc = "changes" /\ ~dry /\ Len(itemLog) = 1 /\ originals = <<>>
    /\ stats.reverse_skipped = 1 /\ stats.conflicts_detected = 0
    /\ stats.reverse_failed = 0 /\ stats.reverse_modified = 0
    /\ \E id \in TxtIds :
         /\ itemLog[1][2] = id
         /\ Stem(db[id].output_path) \in lateEdit
         /\ db[id].supernote_content_hash
              = ContentHash(files[Stem(db[id].output_path)])

\* this step is the item of a deleted file whose note the check could read
\* and found with a hash other than the stored content_hash
DeletionConflict ==
    /\ pc = "changes" /\ changes # <<>> /\ ~dry
    /\ Head(changes).change_type = DELETED
    /\ HasRow(rowOrder, Head(changes).apple_note_id)
    /\ Head(changes).apple_note_id \in srcIds
    /\ ComputeHash(src[Head(changes).apple_note_id])
         # db[Head(changes).apple_note_id].content_hash
    /\ changes' # changes
    /\ itemLog' # <<>>
    /\ itemLog'[1] = Ev("export-note", Head(changes).apple_note_id, TRUE)

\* this step is the forward item, in the same pass, of a note counted as a
\* conflict whose file is not on the Mirror, and its generation succeeds
RegeneratesDeleted ==
    /\ pc = "forward" /\ todo # <<>> /\ ~dry /\ mode = "both"
    /\ Head(todo) \in conflictIds
    /\ ~Exists(files, TxtPath(src[Head(todo)].name))
    /\ fails' = fails

C37_AppliesCurrentContent ==
    [][\A id \in AllIds : ReverseApplied(id) =>
         LET content == files[Stem(Head(changes).path)]
         IN  /\ src'[id].body
                  = markdown_to_apple_html(extract_title_from_markdown(content)[2])
             /\ db'[id].supernote_content_hash = ContentHash(content)
             /\ db'[id].apple_written_hash = ContentHash(src'[id].body)]_vars

\* a file rewritten by the Mirror user after the scan has been applied: the
\* note holds the body of the file as it is now, the stored hash is that of
\* the file as it is now
C37_Witness ==
    /\ pc = "changes" /\ ~dry /\ itemLog # <<>> /\ stats.reverse_modified = 1
    /\ \E id \in TxtIds \cap srcIds :
         /\ itemLog[Len(itemLog)] = Ev("update-note", id, TRUE)
         /\ Stem(db[id].output_path) \in lateEdit
         /\ Exists(files, db[id].output_path)
         /\ db[id].supernote_content_hash
              = ContentHash(files[Stem(db[id].output_path)])
         /\ src[id].body = markdown_to_apple_html(files[Stem(db[id].output_path)][2])

\* C38: record_success replaces the whole state of its note: afterwards
\* supernote_content_hash, supernote_modified_at and apple_written_hash are
\* NULL whatever they held, and they stay NULL until update_supernote_state or
\* update_apple_written_hash runs for the note; no other state changes
C38_RecordSuccessReplaces ==
    [][\A id \in AllIds :
         /\ RecordedSuccess(id) =>
              /\ db'[id].supernote_content_hash = None
              /\ db'[id].supernote_modified_at = None
              /\ db'[id].apple_written_hash = None
              /\ \A other \in AllIds \ {id} : db'[other] = db[other]
         /\ (/\ HasRow(rowOrder, id) /\ db[id].success
             /\ db[id].supernote_content_hash = None
             /\ db'[id].supernote_content_hash # None) =>
              (pc = "refresh" \/ ReverseApplied(id))
         /\ (/\ HasRow(rowOrder, id) /\ db[id].success
             /\ db[id].apple_written_hash = None
             /\ db'[id].apple_written_hash # None) =>
              ReverseApplied(id)]_vars

\* in one bidirectional pass the reverse phase rewrote the only tracked note
\* (storing its written hash and its Mirror hash) and the forward phase then
\* generated it again: the three columns are NULL
C38_Witness ==
    /\ pc = "forward" /\ mode = "both" /\ ~dry /\ fails = 0
    /\ stats.reverse_modified = 1 /\ stats.forward_updated = 1
    /\ \E id \in TxtIds :
         /\ \A i \in AllIds : HasRow(rowOrder, i) => i = id
         /\ db[id].success
         /\ db[id].supernote_content_hash = None
         /\ db[id].supernote_modified_at = None
         /\ db[id].apple_written_hash = None

\* run_reverse_sync of a pass that is not a dry run is at its return, or has
\* returned to cli.sync
ReversePhaseEnded ==
    /\ ~dry
    /\ \/ pc = "newfiles" /\ newFiles = <<>>
       \/ pc = "done" /\ mode = "reverse" /\ returned

\* C39: the statistics run_reverse_sync returns partition its work: every
\* ChangedFile is counted once as modified, deleted, skipped or failed, every
\* new file once as created or failed, every failed item has one error entry,
\* every conflict is resolved and also counted as skipped, and no more backups
\* are counted than modified and deleted items
C39_ReverseStatsPartition ==
    ReversePhaseEnded =>
      /\ stats.reverse_modified + stats.reverse_deleted + stats.reverse_skipped
           + (stats.reverse_failed - scanCount.new_failed) = scanCount.changes
      /\ stats.reverse_created + scanCount.new_failed = scanCount.new_files
      /\ scanCount.new_failed <= stats.reverse_failed
      /\ Len(stats.errors) = stats.reverse_failed
      /\ stats.conflicts_detected = stats.conflicts_resolved_apple_wins
      /\ stats.conflicts_detected <= stats.reverse_skipped
      /\ stats.originals_backed_up <= stats.reverse_modified + stats.reverse_deleted

\* a reverse phase is at its return after one applied ChangedFile, with its
\* backup, and one new file whose note could not be created
C39_Witness ==
    /\ ReversePhaseEnded /\ pc = "newfiles"
    /\ scanCount = [changes |-> 1, new_files |-> 1, new_failed |-> 1]
    /\ stats.reverse_modified + stats.reverse_deleted = 1
    /\ stats.originals_backed_up = 1
    /\ stats.reverse_failed = 1 /\ Len(stats.errors) = 1

====
